---- MODULE Spec2Model ----
(***************************************************************************)
(* Model of the AI-response normalisation pipeline of lazyfood-back:       *)
(* api/src/modules/ai/gemini_service.py, recipe/recommendation_service.py  *)
(* and planner/planning_service.py.                                        *)
(*                                                                         *)
(* A text is a sequence of tokens.  The bracket characters are tokens of   *)
(* their own, so the bracket scan of _extract_first_json runs on the text  *)
(* exactly as in the source.  A JSON key ("nombre":) and a JSON scalar     *)
(* ("Sopa", 15, null) are one token each; commas are folded into them.     *)
(* "J" is the opening fence ```json, "K" the closing fence ```, "x" any    *)
(* other non-blank character run, " " a blank and "\n" a line break.       *)
(***************************************************************************)
EXTENDS Integers, Sequences, FiniteSets, TLC

(***************************************************************************)
(* Python / JSON values                                                    *)
(***************************************************************************)
None == [t |-> "null", v |-> 0]
JInt(n) == [t |-> "int", v |-> n]
JStr(s) == [t |-> "str", v |-> s]
JBool(b) == [t |-> "bool", v |-> b]
JList(s) == [t |-> "list", v |-> s]
\* a dict keeps its insertion order: a sequence of [k, v] pairs, keys unique
JDict(s) == [t |-> "dict", v |-> s]
\* a float, in hundredths; nan and the infinities are floats of their own
Num(h) == [t |-> "float", v |-> h]
NaN == [t |-> "nan", v |-> 0]
PosInf == [t |-> "inf", v |-> 0]
NegInf == [t |-> "ninf", v |-> 0]

\* a str assembled from pieces of a token text keeps its tokens:
\* [t |-> "text", v |-> tokens] (PText below)

\* Python truthiness (x or y, if x, if not x)
Truthy(x) ==
  CASE x.t = "null" -> FALSE
    [] x.t = "int" -> x.v # 0
    [] x.t = "float" -> x.v # 0
    [] x.t = "str" -> x.v # ""
    [] x.t = "text" -> x.v # <<>>
    [] x.t = "bool" -> x.v
    [] x.t = "list" -> Len(x.v) > 0
    [] x.t = "dict" -> Len(x.v) > 0
    [] OTHER -> TRUE

PyOr(x, y) == IF Truthy(x) THEN x ELSE y

\* dict.get(key) on a dict value; None when the key is absent
RECURSIVE DictGetFrom(_, _, _)
DictGetFrom(pairs, key, i) ==
  IF i > Len(pairs) THEN None
  ELSE IF pairs[i].k = key THEN pairs[i].v
  ELSE DictGetFrom(pairs, key, i + 1)

DictGet(d, key) == DictGetFrom(d.v, key, 1)

DictHas(d, key) == \E i \in 1..Len(d.v) : d.v[i].k = key

\* d[key] = val: an existing key keeps its position, a new one is appended
DictPut(pairs, key, val) ==
  IF \E i \in 1..Len(pairs) : pairs[i].k = key
    THEN [i \in 1..Len(pairs) |-> IF pairs[i].k = key THEN [k |-> key, v |-> val] ELSE pairs[i]]
    ELSE Append(pairs, [k |-> key, v |-> val])

(***************************************************************************)
(* Tokens                                                                  *)
(***************************************************************************)
IsSpace(tok) == tok \in {" ", "\n"}

\* JSON object keys, one token each
KeyOf ==
  ("k_nombre" :> "nombre") @@ ("k_name" :> "name") @@ ("k_tiempo" :> "tiempo") @@
  ("k_calorias" :> "calorias") @@ ("k_nivel" :> "nivel") @@
  ("k_ingredientes" :> "ingredientes") @@
  ("k_n" :> "n") @@ ("k_instruccion" :> "instruccion") @@ ("k_timer" :> "timer") @@
  ("k_semana" :> "semana") @@ ("k_sugerencias" :> "sugerencias") @@
  ("k_desayuno" :> "desayuno") @@ ("k_almuerzo" :> "almuerzo") @@ ("k_cena" :> "cena") @@
  ("k_d00" :> "d00") @@ ("k_d01" :> "d01") @@ ("k_d02" :> "d02") @@ ("k_d03" :> "d03") @@
  ("k_d04" :> "d04") @@ ("k_d05" :> "d05") @@ ("k_d06" :> "d06") @@ ("k_d07" :> "d07") @@
  ("k_d09" :> "d09") @@ ("k_d01T" :> "d01T") @@ ("k_lunes" :> "lunes") @@
  ("k_id" :> "id") @@ ("k_receta_id" :> "receta_id") @@ ("k_texto" :> "texto") @@
  ("k_ingredients" :> "ingredients") @@ ("k_bounding_box" :> "bounding_box") @@
  ("k_x" :> "x") @@ ("k_y" :> "y") @@ ("k_width" :> "width") @@ ("k_height" :> "height") @@
  ("k_quantity" :> "quantity")

\* JSON scalars, one token each
ScalarOf ==
  ("null" :> None) @@ ("0" :> JInt(0)) @@ ("1" :> JInt(1)) @@ ("2" :> JInt(2)) @@
  ("3" :> JInt(3)) @@ ("9" :> JInt(9)) @@ ("15" :> JInt(15)) @@ ("10000" :> JInt(10000)) @@
  ("s_Sopa" :> JStr("Sopa")) @@ ("s_Tacos" :> JStr("Tacos")) @@
  ("s_Tomate" :> JStr("Tomate")) @@ ("s_Hervir" :> JStr("Hervir")) @@
  ("s_Servir" :> JStr("Servir")) @@ ("s_" :> JStr("")) @@
  ("s_1" :> JStr("1")) @@ ("s_ID_RECETA_2" :> JStr("ID_RECETA_2")) @@
  ("s_abc" :> JStr("abc")) @@ ("s_d00" :> JStr("d00")) @@ ("s_d01" :> JStr("d01")) @@
  ("s_Pollo" :> JStr("Pollo")) @@ ("s_Salsa de Tomate" :> JStr("Salsa de Tomate")) @@
  ("true" :> JBool(TRUE)) @@ ("0.25" :> Num(25)) @@ ("-0.5" :> Num(-50)) @@ ("1.5" :> Num(150)) @@
  ("NaN" :> NaN) @@ ("Infinity" :> PosInf) @@ ("-Infinity" :> NegInf)

(***************************************************************************)
(* json.loads on a token text (library): the whole text must be one value  *)
(***************************************************************************)
RECURSIVE SkipWs(_, _)
SkipWs(text, i) ==
  IF i <= Len(text) /\ IsSpace(text[i]) THEN SkipWs(text, i + 1) ELSE i

JFail == [ok |-> FALSE, val |-> None, next |-> 0]

RECURSIVE ParseValue(_, _)
RECURSIVE ParseItems(_, _, _)
RECURSIVE ParseMembers(_, _, _)
ParseValue(text, i0) ==
  LET i == SkipWs(text, i0) IN
  IF i > Len(text) THEN JFail
  ELSE IF text[i] \in DOMAIN ScalarOf THEN [ok |-> TRUE, val |-> ScalarOf[text[i]], next |-> i + 1]
  ELSE IF text[i] = "[" THEN ParseItems(text, i + 1, <<>>)
  ELSE IF text[i] = "{" THEN ParseMembers(text, i + 1, <<>>)
  ELSE JFail

ParseItems(text, i0, acc) ==
  LET i == SkipWs(text, i0) IN
  IF i > Len(text) THEN JFail
  ELSE IF text[i] = "]" THEN [ok |-> TRUE, val |-> JList(acc), next |-> i + 1]
  ELSE LET r == ParseValue(text, i) IN
       IF r.ok THEN ParseItems(text, r.next, Append(acc, r.val)) ELSE JFail

ParseMembers(text, i0, acc) ==
  LET i == SkipWs(text, i0) IN
  IF i > Len(text) THEN JFail
  ELSE IF text[i] = "}" THEN [ok |-> TRUE, val |-> JDict(acc), next |-> i + 1]
  ELSE IF text[i] \in DOMAIN KeyOf
    THEN LET r == ParseValue(text, i + 1) IN
         IF r.ok THEN ParseMembers(text, r.next, DictPut(acc, KeyOf[text[i]], r.val)) ELSE JFail
  ELSE JFail

\* [ok, val]: ok = FALSE stands for json.JSONDecodeError
JsonLoads(text) ==
  LET r == ParseValue(text, 1) IN
  IF r.ok /\ SkipWs(text, r.next) > Len(text) THEN [ok |-> TRUE, val |-> r.val]
  ELSE [ok |-> FALSE, val |-> None]

(***************************************************************************)
(* str helpers                                                             *)
(***************************************************************************)
\* text.find(ch): first index of ch, 0 when absent
FindFrom(text, ch, from) ==
  IF \E i \in from..Len(text) : text[i] = ch
    THEN CHOOSE i \in from..Len(text) : text[i] = ch /\ \A j \in from..(i - 1) : text[j] # ch
    ELSE 0

Slice(text, a, b) == IF a > b THEN <<>> ELSE SubSeq(text, a, b)

\* str.strip()
Strip(text) ==
  IF \A i \in 1..Len(text) : IsSpace(text[i]) THEN <<>>
  ELSE LET a == CHOOSE i \in 1..Len(text) : ~IsSpace(text[i]) /\ \A j \in 1..(i - 1) : IsSpace(text[j])
           b == CHOOSE i \in 1..Len(text) : ~IsSpace(text[i]) /\ \A j \in (i + 1)..Len(text) : IsSpace(text[j])
       IN SubSeq(text, a, b)

\* Optional[str]
NoStr == [some |-> FALSE, s |-> <<>>]
SomeStr(s) == [some |-> TRUE, s |-> s]

(***************************************************************************)
(* GeminiService._extract_first_json                                       *)
(***************************************************************************)
Closer(open) == IF open = "[" THEN "]" ELSE "}"

\* re.search(r'```json\s*(\{[\s\S]*?\}|\[[\s\S]*?\])\s*```'): the match that
\* starts at fence j; the closing ``` is also the head of another ```json
FenceMatchAt(text, j) ==
  LET p == SkipWs(text, j + 1)
      ends == IF p <= Len(text) /\ text[p] \in {"[", "{"}
                THEN {q \in (p + 1)..Len(text) :
                        /\ text[q] = Closer(text[p])
                        /\ LET e == SkipWs(text, q + 1) IN
                             e <= Len(text) /\ text[e] \in {"K", "J"}}
                ELSE {}
  IN IF text[j] = "J" /\ ends # {}
       THEN SomeStr(SubSeq(text, p, CHOOSE q \in ends : \A q2 \in ends : q <= q2))
       ELSE NoStr

FenceSearch(text) ==
  LET starts == {j \in 1..Len(text) : FenceMatchAt(text, j).some} IN
  IF starts = {} THEN NoStr
  ELSE FenceMatchAt(text, CHOOSE j \in starts : \A j2 \in starts : j <= j2)

\* the for-loop over range(start, len(text)): index of the closer that brings
\* depth back to 0, or 0 (end = -1)
RECURSIVE ScanFrom(_, _, _, _)
ScanFrom(text, i, depth, open) ==
  IF i > Len(text) THEN 0
  ELSE IF text[i] = open THEN ScanFrom(text, i + 1, depth + 1, open)
  ELSE IF text[i] = Closer(open)
    THEN IF depth - 1 = 0 THEN i ELSE ScanFrom(text, i + 1, depth - 1, open)
  ELSE ScanFrom(text, i + 1, depth, open)

\* variant: the block ends at the first closer after start, whatever the depth
BloqueHastaPrimerCierre(text, open) ==
  LET start == FindFrom(text, open, 1)
      end == IF start = 0 THEN 0 ELSE FindFrom(text, Closer(open), start)
  IN IF end # 0 THEN SomeStr(SubSeq(text, start, end)) ELSE NoStr

BalancedBlock(text, open) ==
  LET start == FindFrom(text, open, 1)
      end == IF start = 0 THEN 0 ELSE ScanFrom(text, start, 0, open)
  IN IF end # 0 THEN SomeStr(SubSeq(text, start, end)) ELSE NoStr

_extract_first_json(text) ==
  LET m == FenceSearch(text)
      arr == BalancedBlock(text, "[")
      obj == BalancedBlock(text, "{")
  IN IF m.some THEN m
     ELSE IF arr.some THEN arr
     ELSE IF obj.some THEN obj
     ELSE NoStr

(***************************************************************************)
(* The SDK response object.  text is the .text attribute (empty when it is *)
(* falsy), candidates holds at most the first candidate with the text of   *)
(* its content parts, its finish_reason and its str(), dump is             *)
(* str(response) and repr_max tells whether repr(response) contains        *)
(* "MAX_TOKENS".                                                           *)
(***************************************************************************)
Candidate(content, fr, dump) == [content |-> content, finish_reason |-> fr, dump |-> dump]

Response(text, cands, dump, reprMax) ==
  [text |-> text, candidates |-> cands, dump |-> dump, repr_max |-> reprMax]

\* GeminiService._extract_text_from_sdk_response
_extract_text_from_sdk_response(response) ==
  IF response.text # <<>> THEN response.text
  ELSE IF Len(response.candidates) > 0
    THEN LET first == response.candidates[1] IN
         IF first.content # <<>> THEN first.content ELSE first.dump
  ELSE response.dump

\* "MAX_TOKENS" in fr.upper() or "MAXTOKENS" in fr.upper() or "MAX" in fr.upper()
FinishReasonHasMax(fr) == fr \in {"MAX_TOKENS", "max_tokens", "MAXTOKENS", "MAX"}

\* GeminiService._is_truncated_response
_is_truncated_response(response, texto) ==
  LET byFinish == /\ Len(response.candidates) > 0
                  /\ response.candidates[1].finish_reason # ""
                  /\ FinishReasonHasMax(response.candidates[1].finish_reason)
      js == _extract_first_json(texto)
      txt == Strip(js.s)
      bySyntax == /\ js.some
                  /\ txt # <<>>
                  /\ \/ (txt[1] = "[" /\ txt[Len(txt)] # "]")
                     \/ (txt[1] = "{" /\ txt[Len(txt)] # "}")
  IN IF byFinish THEN TRUE
     ELSE IF response.repr_max THEN TRUE
     ELSE bySyntax

(***************************************************************************)
(* int(x): [ok, n]; ok = FALSE stands for ValueError / TypeError           *)
(***************************************************************************)
IntOfStr == ("1" :> 1) @@ ("2" :> 2) @@ ("3" :> 3) @@ ("9" :> 9) @@ ("15" :> 15)

PyInt(x) ==
  CASE x.t = "int" -> [ok |-> TRUE, n |-> x.v]
    [] x.t = "bool" -> [ok |-> TRUE, n |-> IF x.v THEN 1 ELSE 0]
    [] x.t = "str" /\ x.v \in DOMAIN IntOfStr -> [ok |-> TRUE, n |-> IntOfStr[x.v]]
    [] OTHER -> [ok |-> FALSE, n |-> 0]

\* int(x) if x is not None else dflt; only read when IntFieldRaises is false
IntField(x, dflt) == IF x.t = "null" THEN dflt ELSE JInt(PyInt(x).n)
IntFieldRaises(x) == x.t # "null" /\ ~PyInt(x).ok

(***************************************************************************)
(* GeminiService._parsear_array_recetas_es                                 *)
(***************************************************************************)
DefaultEmoji == JStr("plato")

\* for ing in r.get("ingredientes", []): what the loop iterates over
IngItems(r) ==
  LET x == DictGet(r, "ingredientes") IN
  IF ~DictHas(r, "ingredientes") THEN <<>>
  ELSE IF x.t = "list" THEN x.v
  ELSE IF x.t = "dict" THEN [i \in 1..Len(x.v) |-> JStr(x.v[i].k)]
  ELSE <<>>

\* iterating None, an int or a bool raises TypeError; so does .get on a
\* non-dict element (AttributeError); a non-empty str yields its characters
IngItemsRaise(r) ==
  LET x == DictGet(r, "ingredientes") IN
  /\ DictHas(r, "ingredientes")
  /\ \/ x.t \in {"null", "int", "bool"}
     \/ x.t = "str" /\ x.v # ""
     \/ \E i \in 1..Len(IngItems(r)) : IngItems(r)[i].t # "dict"

NormIngrediente(ing) ==
  [nombre |-> PyOr(DictGet(ing, "nombre"), DictGet(ing, "name")),
   cantidad |-> PyOr(PyOr(DictGet(ing, "cantidad"), DictGet(ing, "quantity")), JInt(0)),
   unidad |-> PyOr(PyOr(DictGet(ing, "unidad"), DictGet(ing, "unit")), JStr("")),
   emoji |-> DictGet(ing, "emoji"),
   en_inventario |-> IF DictHas(ing, "en_inventario")
                       THEN Truthy(DictGet(ing, "en_inventario")) ELSE TRUE]

NormReceta(r) ==
  [nombre |-> DictGet(r, "nombre"),
   tiempo |-> IntField(DictGet(r, "tiempo"), None),
   calorias |-> IntField(DictGet(r, "calorias"), None),
   nivel |-> IntField(DictGet(r, "nivel"), JInt(1)),
   razon |-> PyOr(DictGet(r, "razon"), JStr("")),
   emoji |-> PyOr(DictGet(r, "emoji"), DefaultEmoji),
   ingredientes |-> [i \in 1..Len(IngItems(r)) |-> NormIngrediente(IngItems(r)[i])]]

NormRecetaRaises(r) ==
  \/ r.t # "dict"
  \/ IntFieldRaises(DictGet(r, "tiempo"))
  \/ IntFieldRaises(DictGet(r, "calorias"))
  \/ IntFieldRaises(DictGet(r, "nivel"))
  \/ IngItemsRaise(r)

_parsear_array_recetas_es(texto) ==
  LET json_str == _extract_first_json(texto)
      data == JsonLoads(json_str.s)
  IN IF ~json_str.some \/ json_str.s = <<>> THEN <<>>
     ELSE IF ~data.ok THEN <<>>
     ELSE IF data.val.t # "list" THEN <<>>
     ELSE IF \E i \in 1..Len(data.val.v) : NormRecetaRaises(data.val.v[i]) THEN <<>>
     ELSE [i \in 1..Len(data.val.v) |-> NormReceta(data.val.v[i])]

(***************************************************************************)
(* Plain-text tokens: "p_nombre" is the text  nombre:  (likewise tiempo,   *)
(* calorias, nivel, ingredientes), "-" a dash, "," a comma, a digit token  *)
(* a run of digits and "w_..." a word.                                     *)
(***************************************************************************)
DigitTokens == {"0", "1", "2", "3", "9", "15"}
DigitValue == ("0" :> 0) @@ ("1" :> 1) @@ ("2" :> 2) @@ ("3" :> 3) @@ ("9" :> 9) @@ ("15" :> 15)
WordTokens == {"w_Sopa", "w_Arroz", "w_Hervir", "w_Servir"}

\* a str built by a regex group or by joining lines: its tokens
PText(toks) == [t |-> "text", v |-> toks]

\* texto.splitlines()
RECURSIVE SplitLinesFrom(_, _, _, _)
SplitLinesFrom(text, i, cur, acc) ==
  IF i > Len(text) THEN (IF cur = <<>> THEN acc ELSE Append(acc, cur))
  ELSE IF text[i] = "\n" THEN SplitLinesFrom(text, i + 1, <<>>, Append(acc, cur))
  ELSE SplitLinesFrom(text, i + 1, Append(cur, text[i]), acc)

SplitLines(text) == SplitLinesFrom(text, 1, <<>>, <<>>)

\* lines = [l.strip() for l in texto.splitlines() if l.strip()]
StrippedLines(text) ==
  LET all == SplitLines(text) IN
  [i \in 1..Len(SelectSeq(all, LAMBDA l : Strip(l) # <<>>)) |->
     Strip(SelectSeq(all, LAMBDA l : Strip(l) # <<>>)[i])]

\* " ".join(lines)
RECURSIVE JoinFrom(_, _, _)
JoinFrom(lines, i, acc) ==
  IF i > Len(lines) THEN acc
  ELSE JoinFrom(lines, i + 1, IF i = 1 THEN lines[i] ELSE acc \o <<" ">> \o lines[i])

JoinLines(lines) == JoinFrom(lines, 1, <<>>)

\* re.match(r'^(-\s*)?nombre\s*[:=]\s*', ln) or re.match(r'^- ', ln)
StartsBlock(ln) ==
  \/ ln[1] = "p_nombre"
  \/ ln[1] = "-" /\ SkipWs(ln, 2) <= Len(ln) /\ ln[SkipWs(ln, 2)] = "p_nombre"
  \/ ln[1] = "-" /\ Len(ln) >= 2 /\ ln[2] = " "

\* the loop that groups the lines into blocks; lines before the first block
\* start are dropped
RECURSIVE BloquesFrom(_, _, _, _)
BloquesFrom(lines, i, current, bloques) ==
  IF i > Len(lines) THEN (IF current # <<>> THEN Append(bloques, current) ELSE bloques)
  ELSE IF StartsBlock(lines[i])
    THEN BloquesFrom(lines, i + 1, <<lines[i]>>,
                     IF current # <<>> THEN Append(bloques, current) ELSE bloques)
  ELSE BloquesFrom(lines, i + 1,
                   IF current # <<>> THEN Append(current, lines[i]) ELSE current, bloques)

\* re.search(key + r'\s*[:=]\s*(\d+)'): value of the first key token that is
\* followed by digits, -1 when there is none
DigitsAfter(blk, key) ==
  LET hits == {i \in 1..Len(blk) : /\ blk[i] = key
                                   /\ SkipWs(blk, i + 1) <= Len(blk)
                                   /\ blk[SkipWs(blk, i + 1)] \in DigitTokens}
  IN IF hits = {} THEN -1
     ELSE DigitValue[blk[SkipWs(blk, (CHOOSE i \in hits : \A j \in hits : i <= j) + 1)]]

\* end of the run [^,"\n]+ that starts at position i
RECURSIVE RunEnd(_, _)
RunEnd(blk, i) == IF i > Len(blk) \/ blk[i] = "," THEN i - 1 ELSE RunEnd(blk, i + 1)

\* re.search(r'nombre\s*[:=]\s*["\']?([^,"\n]+)').group(1).strip(); NoStr
\* when no key token is followed by at least one character of the group
NombreMatch(blk) ==
  LET hits == {i \in 1..Len(blk) : blk[i] = "p_nombre" /\ RunEnd(blk, i + 1) >= i + 1} IN
  IF hits = {} THEN NoStr
  ELSE LET i == CHOOSE h \in hits : \A j \in hits : h <= j IN
       SomeStr(Strip(SubSeq(blk, i + 1, RunEnd(blk, i + 1))))

\* split of the text after ingredientes: on commas, empty parts skipped
RECURSIVE SplitCommaFrom(_, _, _, _)
SplitCommaFrom(toks, i, cur, acc) ==
  IF i > Len(toks) THEN (IF Strip(cur) = <<>> THEN acc ELSE Append(acc, Strip(cur)))
  ELSE IF toks[i] = ","
    THEN SplitCommaFrom(toks, i + 1, <<>>, IF Strip(cur) = <<>> THEN acc ELSE Append(acc, Strip(cur)))
  ELSE SplitCommaFrom(toks, i + 1, Append(cur, toks[i]), acc)

\* every non-empty part becomes one ingredient; the quantity/unit split of
\* the part is character-level and kept inside the name here
IngredientesPlain(blk) ==
  LET i == FindFrom(blk, "p_ingredientes", 1)
      parts == IF i = 0 THEN <<>> ELSE SplitCommaFrom(SubSeq(blk, i + 1, Len(blk)), 1, <<>>, <<>>)
  IN [k \in 1..Len(parts) |->
        [nombre |-> PText(parts[k]), cantidad |-> JInt(0), unidad |-> JStr(""),
         emoji |-> None, en_inventario |-> TRUE]]

\* one result per block
RecetaDeBloque(blk) ==
  LET texto_blk == JoinLines(blk)
      nombre_m == NombreMatch(texto_blk)
      tiempo == DigitsAfter(texto_blk, "p_tiempo")
      calorias == DigitsAfter(texto_blk, "p_calorias")
      nivel == DigitsAfter(texto_blk, "p_nivel")
  IN [nombre |-> IF nombre_m.some /\ nombre_m.s # <<>> THEN PText(nombre_m.s) ELSE JStr("Sin nombre"),
      tiempo |-> JInt(IF tiempo > 0 THEN tiempo ELSE 0),
      calorias |-> JInt(IF calorias > 0 THEN calorias ELSE 0),
      nivel |-> JInt(IF nivel >= 0 THEN nivel ELSE 1),
      razon |-> JStr(""),
      emoji |-> DefaultEmoji,
      ingredientes |-> IngredientesPlain(texto_blk)]

\* re.search(r'([A-Z...][\w\s]+)\s+-\s+tiempo\s*[:=]\s*(\d+)'): positions i of
\* a dash with blanks around it, words before it and  tiempo: digits  after it
LooseHits(t) ==
  {i \in 3..Len(t) :
     /\ t[i] = "-" /\ t[i - 1] = " " /\ t[i - 2] \in WordTokens
     /\ i + 1 <= Len(t) /\ t[i + 1] = " "
     /\ SkipWs(t, i + 1) <= Len(t) /\ t[SkipWs(t, i + 1)] = "p_tiempo"
     /\ SkipWs(t, SkipWs(t, i + 1) + 1) <= Len(t)
     /\ t[SkipWs(t, SkipWs(t, i + 1) + 1)] \in DigitTokens}

\* start of the run of words and blanks that ends at position i
RECURSIVE WordRunStart(_, _)
WordRunStart(t, i) ==
  IF i >= 1 /\ (t[i] \in WordTokens \/ t[i] \in DigitTokens \/ IsSpace(t[i]))
    THEN WordRunStart(t, i - 1) ELSE i + 1

LooseReceta(t) ==
  LET i == CHOOSE h \in LooseHits(t) : \A j \in LooseHits(t) : h <= j IN
  [nombre |-> PText(Strip(SubSeq(t, WordRunStart(t, i - 1), i - 1))),
   tiempo |-> JInt(DigitValue[t[SkipWs(t, SkipWs(t, i + 1) + 1)]]),
   calorias |-> JInt(0), nivel |-> JInt(1), razon |-> JStr(""),
   emoji |-> DefaultEmoji, ingredientes |-> <<>>]

\* GeminiService._parsear_fallback_plaintext
_parsear_fallback_plaintext(texto) ==
  LET lines == StrippedLines(texto)
      bloques == BloquesFrom(lines, 1, <<>>, <<>>)
      resultados == [i \in 1..Len(bloques) |-> RecetaDeBloque(bloques[i])]
  IN IF resultados = <<>> /\ lines # <<>> /\ LooseHits(JoinLines(lines)) # {}
       THEN <<LooseReceta(JoinLines(lines))>>
       ELSE resultados

\* variant: no canned recipe
SinRecetasPorDefecto == <<>>

\* GeminiService._recetas_por_defecto
_recetas_por_defecto ==
  <<[nombre |-> JStr("Ensalada de Tomate"), tiempo |-> JInt(10), calorias |-> JInt(150),
     nivel |-> JInt(1), razon |-> JStr("Receta basica usando ingredientes disponibles"),
     emoji |-> JStr("ensalada"),
     ingredientes |->
       <<[nombre |-> JStr("Tomate"), cantidad |-> JInt(2), unidad |-> JStr("unidades"),
          emoji |-> JStr("tomate"), en_inventario |-> TRUE],
         [nombre |-> JStr("Aceite de Oliva"), cantidad |-> JInt(1), unidad |-> JStr("cucharada"),
          emoji |-> JStr("aceite"), en_inventario |-> TRUE]>>]>>

(***************************************************************************)
(* GeminiService._parsear_pasos                                            *)
(***************************************************************************)
\* n = p.get("n") or p.get("numero") or p.get("numero_paso"); int(n) or None
PasoNumero(p) ==
  LET n == PyOr(PyOr(DictGet(p, "n"), DictGet(p, "numero")), DictGet(p, "numero_paso")) IN
  IF n.t # "null" /\ PyInt(n).ok THEN JInt(PyInt(n).n) ELSE None

NormPaso(p) ==
  [n |-> PasoNumero(p),
   instruccion |-> PyOr(PyOr(PyOr(DictGet(p, "instruccion"), DictGet(p, "instruction")),
                             DictGet(p, "texto")), JStr("")),
   timer |-> IF DictHas(p, "timer") THEN DictGet(p, "timer")
             ELSE IF DictHas(p, "temporizador_segundos") THEN DictGet(p, "temporizador_segundos")
             ELSE None]

\* key=lambda x: (x["n"] if x["n"] is not None else 9999)
SortKeyNone == 9999
PasoSortKey(p) == IF p.n.t = "null" THEN SortKeyNone ELSE p.n.v

\* list.sort is stable: insert x after the last element whose key is <= its key
RECURSIVE InsertSorted(_, _)
InsertSorted(sorted, x) ==
  IF sorted = <<>> THEN <<x>>
  ELSE IF PasoSortKey(sorted[Len(sorted)]) <= PasoSortKey(x) THEN Append(sorted, x)
  ELSE Append(InsertSorted(SubSeq(sorted, 1, Len(sorted) - 1), x), sorted[Len(sorted)])

RECURSIVE SortPasosFrom(_, _, _)
SortPasosFrom(pasos, i, acc) ==
  IF i > Len(pasos) THEN acc ELSE SortPasosFrom(pasos, i + 1, InsertSorted(acc, pasos[i]))

SortPasos(pasos) == SortPasosFrom(pasos, 1, <<>>)

_parsear_pasos(texto) ==
  LET json_str == _extract_first_json(texto)
      parsed == JsonLoads(json_str.s)
  IN IF ~json_str.some \/ json_str.s = <<>> THEN <<>>
     ELSE IF ~parsed.ok THEN <<>>
     ELSE IF parsed.val.t # "list" THEN <<>>
     ELSE IF \E i \in 1..Len(parsed.val.v) : parsed.val.v[i].t # "dict" THEN <<>>
     ELSE SortPasos(SelectSeq([i \in 1..Len(parsed.val.v) |-> NormPaso(parsed.val.v[i])],
                              LAMBDA p : Truthy(p.instruccion)))

(***************************************************************************)
(* GeminiService._parsear_pasos_fallback_from_plaintext                    *)
(* "1." "2." "7." stand for digits followed by . or ), "paso_1" for        *)
(* Paso 1:, "u_min" and "u_s" for the units min and s.                     *)
(***************************************************************************)
NumberedPrefix == {"1.", "2.", "7.", "paso_1", "paso_3"}

\* end of the leading run of dashes (-+)
RECURSIVE DashRunEnd(_, _)
DashRunEnd(ln, i) == IF i <= Len(ln) /\ ln[i] = "-" THEN DashRunEnd(ln, i + 1) ELSE i - 1

\* re.match(r'^(?:\d+[\.\)]\s*|Paso\s*\d+\:?\s*|-+\s*)(.+)', ln).group(1).strip()
StepMatch(ln) ==
  IF ln[1] \in NumberedPrefix
    THEN IF Len(ln) >= 2 THEN SomeStr(Strip(SubSeq(ln, 2, Len(ln)))) ELSE NoStr
  ELSE IF ln[1] = "-"
    THEN LET e == DashRunEnd(ln, 1) IN
         IF e < Len(ln) THEN SomeStr(Strip(SubSeq(ln, e + 1, Len(ln))))
         ELSE IF e >= 2 THEN SomeStr(<<"-">>)
         ELSE NoStr
  ELSE NoStr

\* what follows the digits: s|sec|min|m[in]{0,2}, also as the first letter
\* of a word (IGNORECASE); seconds per unit, 0 when the token is no unit
UnitSeconds(tok) ==
  IF tok \in {"u_min"} THEN 60
  ELSE IF tok \in {"u_s", "w_Sopa", "w_Servir"} THEN 1
  ELSE 0

\* re.search(r'(\d+)\s*(s|sec|min|m[in]{0,2})', ln)
LineTimer(ln) ==
  LET hits == {i \in 1..Len(ln) : /\ ln[i] \in DigitTokens
                                  /\ SkipWs(ln, i + 1) <= Len(ln)
                                  /\ UnitSeconds(ln[SkipWs(ln, i + 1)]) > 0}
  IN IF hits = {} THEN None
     ELSE LET i == CHOOSE h \in hits : \A j \in hits : h <= j IN
          JInt(DigitValue[ln[i]] * UnitSeconds(ln[SkipWs(ln, i + 1)]))

RECURSIVE PasosPlainFrom(_, _, _, _)
PasosPlainFrom(lines, i, n, pasos) ==
  IF i > Len(lines) THEN pasos
  ELSE LET ln == lines[i] IN
    IF ln[1] \in {"[", "{"} THEN PasosPlainFrom(lines, i + 1, n, pasos)
    ELSE IF StepMatch(ln).some
      THEN PasosPlainFrom(lines, i + 1, n + 1,
             Append(pasos, [n |-> JInt(n), instruccion |-> PText(StepMatch(ln).s),
                            timer |-> LineTimer(ln)]))
    ELSE IF pasos # <<>>
      THEN PasosPlainFrom(lines, i + 1, n,
             [pasos EXCEPT ![Len(pasos)].instruccion =
                PText(pasos[Len(pasos)].instruccion.v \o <<" ">> \o ln)])
    ELSE PasosPlainFrom(lines, i + 1, n + 1,
             Append(pasos, [n |-> JInt(n), instruccion |-> PText(ln), timer |-> None]))

\* variant: the counter starts at 0
PasosPlainDesdeCero(texto) == PasosPlainFrom(StrippedLines(texto), 1, 0, <<>>)

_parsear_pasos_fallback_from_plaintext(texto) ==
  PasosPlainFrom(StrippedLines(texto), 1, 1, <<>>)

(***************************************************************************)
(* Calendar dates: day n is written DateStr(n) in the format %Y-%m-%d      *)
(***************************************************************************)
DateStrs == <<"d00", "d01", "d02", "d03", "d04", "d05", "d06", "d07", "d08", "d09",
              "d10", "d11", "d12", "d13", "d14", "d15">>

DateStr(n) == DateStrs[n + 1]

IsDateStr(s) == \E i \in 1..Len(DateStrs) : DateStrs[i] = s

\* datetime.strptime(s, '%Y-%m-%d'), only read when IsDateStr(s)
DayOf(s) == (CHOOSE i \in 1..Len(DateStrs) : DateStrs[i] = s) - 1

\* re.search(r'\d{4}-\d{2}-\d{2}', s).group(0) for a key that is no date:
\* "" when the key holds no date
DateInside == ("d01T" :> "d01") @@ ("lunes" :> "")

Comidas == <<"desayuno", "almuerzo", "cena">>

(***************************************************************************)
(* The tables Receta, SugerenciaReceta, PasoReceta and Planificador.       *)
(* recetas[i] is the nombre of the Receta row with id i (ids are assigned  *)
(* in sequence and rows are never deleted).                                *)
(***************************************************************************)
RecetaGet(recetas, id) == id \in 1..Len(recetas)

\* Receta.query.filter_by(nombre=...).first(): 0 when there is none
RecetaByNombre(recetas, nombre) ==
  IF \E i \in 1..Len(recetas) : recetas[i] = nombre
    THEN CHOOSE i \in 1..Len(recetas) : recetas[i] = nombre /\ \A j \in 1..(i - 1) : recetas[j] # nombre
    ELSE 0

(***************************************************************************)
(* GeminiService._planificacion_por_defecto and                            *)
(* GeminiService._parsear_respuesta_planificacion                          *)
(***************************************************************************)
\* Receta.query.limit(3).all() -> ids; [None, None, None] when there is no row
DefaultRecetaIds(recetas) ==
  IF Len(recetas) = 0 THEN <<None, None, None>>
  ELSE [i \in 1..(IF Len(recetas) < 3 THEN Len(recetas) ELSE 3) |-> JInt(i)]

DiaPorDefecto(ids) ==
  JDict(<<[k |-> "desayuno", v |-> IF Len(ids) > 0 THEN ids[1] ELSE None],
          [k |-> "almuerzo", v |-> IF Len(ids) > 1 THEN ids[2] ELSE None],
          [k |-> "cena", v |-> IF Len(ids) > 2 THEN ids[3] ELSE None]>>)

\* dbOk = FALSE: the query raises and the except branch assigns no recipe
_planificacion_por_defecto(fecha_inicio, recetas, dbOk) ==
  LET ids == IF dbOk THEN DefaultRecetaIds(recetas) ELSE <<>>
      fecha == DayOf(fecha_inicio)
  IN JDict(<<[k |-> "semana", v |-> JStr(fecha_inicio)],
             [k |-> "sugerencias",
              v |-> JDict([i \in 1..7 |-> [k |-> DateStr(fecha + i - 1), v |-> DiaPorDefecto(ids)]])]>>)

\* hoy is datetime.now().strftime("%Y-%m-%d")
_parsear_respuesta_planificacion(respuesta, hoy, recetas, dbOk) ==
  LET json_str == _extract_first_json(respuesta)
      planificacion == JsonLoads(json_str.s)
  IN IF ~json_str.some \/ json_str.s = <<>> THEN _planificacion_por_defecto(hoy, recetas, dbOk)
     ELSE IF ~planificacion.ok THEN _planificacion_por_defecto(hoy, recetas, dbOk)
     ELSE IF planificacion.val.t # "dict" \/ ~DictHas(planificacion.val, "sugerencias")
       THEN _planificacion_por_defecto(hoy, recetas, dbOk)
     ELSE planificacion.val

(***************************************************************************)
(* PlanningService._resolver_receta_id                                     *)
(***************************************************************************)
\* str(x).strip().lower() of the strings the model emits
LowerOf ==
  ("Sopa" :> "sopa") @@ (" SOPA " :> "sopa") @@ ("Tacos" :> "tacos") @@
  ("Sopa de Pollo" :> "sopa de pollo") @@ ("Ensalada de Tomate" :> "ensalada de tomate") @@
  (" " :> "") @@ ("ID_RECETA_2" :> "id_receta_2") @@ ("Hervir" :> "hervir") @@
  ("Servir" :> "servir") @@ ("Tomate" :> "tomate") @@ ("Pollo" :> "pollo") @@
  ("Salsa de Tomate" :> "salsa de tomate")

NormStr(s) == IF s \in DOMAIN LowerOf THEN LowerOf[s] ELSE s

\* a in b for normalised strings
SubPairs == {<<"sopa", "sopa de pollo">>, <<"pollo", "sopa de pollo">>,
             <<"tomate", "ensalada de tomate">>, <<"2", "id_receta_2">>,
             <<"2", "receta_id_2">>, <<"2", "9 receta_id_2">>, <<"9", "9 receta_id_2">>,
             <<"receta_id_2", "9 receta_id_2">>, <<"1", "15">>,
             <<"tomate", "salsa de tomate">>}

StrIn(a, b) == a = "" \/ a = b \/ <<a, b>> \in SubPairs

\* re.search(r'(\d+)', s): the first number in s, -1 when there is none
FirstNumber ==
  ("1" :> 1) @@ ("2" :> 2) @@ ("3" :> 3) @@ ("9" :> 9) @@ ("15" :> 15) @@
  ("ID_RECETA_2" :> 2) @@ ("receta_id_2" :> 2) @@ ("9 receta_id_2" :> 9)

\* re.search(r'receta[_\-]?\s*id[_\-]?\s*(\d+)', s, re.IGNORECASE)
RecetaIdNumber == ("receta_id_2" :> 2) @@ ("9 receta_id_2" :> 2)

\* first key of recetas_by_name_norm (in iteration order) that contains
\* s_norm or is contained in it; None when there is none
RECURSIVE NameContains(_, _, _)
NameContains(by_name, s_norm, i) ==
  IF i > Len(by_name) THEN None
  ELSE IF StrIn(by_name[i].k, s_norm) \/ StrIn(s_norm, by_name[i].k) THEN JInt(by_name[i].v)
  ELSE NameContains(by_name, s_norm, i + 1)

\* variant: containment only, an equal key gets no precedence
ResolveNameSoloContiene(s_norm, by_name) == NameContains(by_name, s_norm, 1)

ResolveName(s_norm, by_name) ==
  IF \E i \in 1..Len(by_name) : by_name[i].k = s_norm
    THEN JInt(by_name[CHOOSE i \in 1..Len(by_name) : by_name[i].k = s_norm].v)
    ELSE NameContains(by_name, s_norm, 1)

\* the loop over ('id', 'receta_id', 'recipe_id'): first key whose value is
\* truthy, converts with int() and names a Receta row
RECURSIVE ResolveDictId(_, _, _)
ResolveDictId(raw, keys, recetas) ==
  IF keys = <<>> THEN None
  ELSE LET v == DictGet(raw, Head(keys)) IN
       IF Truthy(v) /\ PyInt(v).ok /\ RecetaGet(recetas, PyInt(v).n) THEN JInt(PyInt(v).n)
       ELSE ResolveDictId(raw, Tail(keys), recetas)

\* str(nombre) of a scalar
StrOf(x) == IF x.t = "str" THEN x.v ELSE "other"

\* recetas is the Receta table read by Receta.query.get; recetas_by_id (the
\* ids of the caller's catalog) is a parameter the function never reads
_resolver_receta_id(raw_value, recetas_by_id, recetas_by_name_norm, recetas) ==
  CASE raw_value.t = "null" -> None
    [] raw_value.t = "int" ->
         IF RecetaGet(recetas, raw_value.v) THEN JInt(raw_value.v) ELSE None
    [] raw_value.t = "bool" ->
         IF RecetaGet(recetas, PyInt(raw_value).n) THEN JInt(PyInt(raw_value).n) ELSE None
    [] raw_value.t = "dict" ->
         LET byId == ResolveDictId(raw_value, <<"id", "receta_id", "recipe_id">>, recetas)
             nombre == PyOr(DictGet(raw_value, "nombre"), DictGet(raw_value, "name"))
         IN IF byId # None THEN byId
            ELSE IF Truthy(nombre) THEN ResolveName(NormStr(StrOf(nombre)), recetas_by_name_norm)
            ELSE None
    [] raw_value.t = "str" ->
         LET s == IF NormStr(raw_value.v) = "" THEN "" ELSE raw_value.v IN
         IF s \in DOMAIN IntOfStr /\ RecetaGet(recetas, IntOfStr[s]) THEN JInt(IntOfStr[s])
         ELSE IF s \in DOMAIN FirstNumber /\ RecetaGet(recetas, FirstNumber[s]) THEN JInt(FirstNumber[s])
         ELSE IF s \in DOMAIN RecetaIdNumber /\ RecetaGet(recetas, RecetaIdNumber[s])
           THEN JInt(RecetaIdNumber[s])
         ELSE ResolveName(NormStr(s), recetas_by_name_norm)
    [] OTHER -> None

(***************************************************************************)
(* The model collaborator: self.model.generate_content either raises or    *)
(* returns a response object.                                              *)
(***************************************************************************)
Raises == [raises |-> TRUE, response |-> Response(<<>>, <<>>, <<>>, FALSE)]
Returns(r) == [raises |-> FALSE, response |-> r]

\* max_output_tokens of GenerateContentConfig: 0 when the config sets none
NoMaxOutputTokens == 0
RetryMaxOutputTokens == 3000

Call(budget, outcome) == [max_output_tokens |-> budget, outcome |-> outcome]

(***************************************************************************)
(* GeminiService.generar_recetas_metadata                                  *)
(* o1 is the outcome of the first generate_content call, o2 the outcome of *)
(* the retry call if one is made.  calls lists the calls made, stages the  *)
(* parsers run, in order.                                                  *)
(***************************************************************************)
RecetasResultado(o1, o2, n, stages, result) ==
  [result |-> result,
   calls |-> IF n = 1 THEN <<Call(NoMaxOutputTokens, o1)>>
             ELSE <<Call(NoMaxOutputTokens, o1), Call(RetryMaxOutputTokens, o2)>>,
   stages |-> stages]

\* lines 99-106: the plaintext fallback on the first text, then the default
RecetasFallback(o1, o2, n, stages, fallback) ==
  IF fallback # <<>>
    THEN RecetasResultado(o1, o2, n, stages \o <<"fallback">>, fallback)
    ELSE RecetasResultado(o1, o2, n, stages \o <<"fallback", "default">>, _recetas_por_defecto)

\* lines 86-95: the retry answered; parse2 / fallback2 are the parses of its text
RecetasDeReintento(o1, o2, parse2, fallback2, fallback) ==
  IF parse2 # <<>> THEN RecetasResultado(o1, o2, 2, <<"parse", "parse2">>, parse2)
  ELSE IF fallback2 # <<>>
    THEN RecetasResultado(o1, o2, 2, <<"parse", "parse2", "fallback2">>, fallback2)
  ELSE RecetasFallback(o1, o2, 2, <<"parse", "parse2", "fallback2">>, fallback)

RecetasTextoReintento(o1, o2, texto2, fallback) ==
  RecetasDeReintento(o1, o2, _parsear_array_recetas_es(texto2),
                     _parsear_fallback_plaintext(texto2), fallback)

\* lines 78-106: the retry call and what follows it
RecetasAfterRetry(o1, o2, fallback) ==
  IF o2.raises THEN RecetasFallback(o1, o2, 2, <<"parse">>, fallback)
  ELSE RecetasTextoReintento(o1, o2, _extract_text_from_sdk_response(o2.response), fallback)

\* lines 70-106: parse, truncated, fallback are the structured parse of the
\* first text, _is_truncated_response of it, and its plaintext parse
RecetasDePrimera(o1, o2, parse, truncated, fallback) ==
  IF parse # <<>> THEN RecetasResultado(o1, o2, 1, <<"parse">>, parse)
  ELSE IF truncated THEN RecetasAfterRetry(o1, o2, fallback)
  ELSE RecetasFallback(o1, o2, 1, <<"parse">>, fallback)

RecetasDeTexto(o1, o2, texto) ==
  RecetasDePrimera(o1, o2, _parsear_array_recetas_es(texto),
                   _is_truncated_response(o1.response, texto),
                   _parsear_fallback_plaintext(texto))

\* variant: retries whenever the first parse is empty, truncated or not
RecetasReintentoSiempre(o1, o2) ==
  LET texto == _extract_text_from_sdk_response(o1.response) IN
  IF o1.raises THEN RecetasResultado(o1, o2, 1, <<"default">>, _recetas_por_defecto)
  ELSE RecetasDePrimera(o1, o2, _parsear_array_recetas_es(texto), TRUE,
                        _parsear_fallback_plaintext(texto))

generar_recetas_metadata(o1, o2) ==
  IF o1.raises THEN RecetasResultado(o1, o2, 1, <<"default">>, _recetas_por_defecto)
  ELSE RecetasDeTexto(o1, o2, _extract_text_from_sdk_response(o1.response))

(***************************************************************************)
(* GeminiService.generar_pasos_detallados                                  *)
(***************************************************************************)
PasosResultado(o1, stages, result) ==
  [result |-> result, calls |-> <<Call(NoMaxOutputTokens, o1)>>, stages |-> stages]

\* lines 186-191: the structured parse, else the plaintext steps
PasosDeParse(o1, parse, fallback) ==
  IF parse # <<>> THEN PasosResultado(o1, <<"parse">>, parse)
  ELSE PasosResultado(o1, <<"parse", "fallback">>, fallback)

PasosDeTexto(o1, texto) ==
  PasosDeParse(o1, _parsear_pasos(texto), _parsear_pasos_fallback_from_plaintext(texto))

\* variant: asks the model again when the first answer gives no steps
PasosConReintento(o1) ==
  LET texto == _extract_text_from_sdk_response(o1.response)
      calls == <<Call(NoMaxOutputTokens, o1)>>
  IN IF o1.raises THEN [result |-> <<>>, calls |-> calls, stages |-> <<>>]
     ELSE IF _parsear_pasos(texto) # <<>>
       THEN [result |-> _parsear_pasos(texto), calls |-> calls, stages |-> <<"parse">>]
     ELSE [result |-> _parsear_pasos_fallback_from_plaintext(texto),
           calls |-> calls \o <<Call(RetryMaxOutputTokens, o1)>>,
           stages |-> <<"parse", "parse2", "fallback">>]

generar_pasos_detallados(o1) ==
  IF o1.raises THEN PasosResultado(o1, <<>>, <<>>)
  ELSE PasosDeTexto(o1, _extract_text_from_sdk_response(o1.response))

(***************************************************************************)
(* GeminiService.generar_planificacion_semanal                             *)
(* fecha_inicio is a date string (planner/routes.py rejects any other      *)
(* before the service is called), hoy the current date.                    *)
(***************************************************************************)
generar_planificacion_semanal(o1, fecha_inicio, hoy, recetas, dbOk) ==
  LET texto == _extract_text_from_sdk_response(o1.response)
      calls == <<Call(NoMaxOutputTokens, o1)>>
  IN IF o1.raises
       THEN [result |-> _planificacion_por_defecto(fecha_inicio, recetas, dbOk), calls |-> calls,
             stages |-> <<"default">>]
     ELSE [result |-> _parsear_respuesta_planificacion(texto, hoy, recetas, dbOk), calls |-> calls,
           stages |-> <<"parse">>]

(***************************************************************************)
(* PlanningService._planificacion_por_defecto_con_ids                      *)
(* recetas_user is the list of recipe ids of the user's suggestions, hoy   *)
(* the date of datetime.utcnow()                                           *)
(***************************************************************************)
\* variant: the cycle advances one recipe per day, not three
DiaCicloCorto(i, receta_ids) ==
  IF receta_ids # <<>>
    THEN JDict([s \in 1..3 |->
                  [k |-> Comidas[s], v |-> JInt(receta_ids[((i + s - 1) % Len(receta_ids)) + 1])]])
    ELSE JDict([s \in 1..3 |-> [k |-> Comidas[s], v |-> None]])

DiaCiclico(i, receta_ids) ==
  IF receta_ids # <<>>
    THEN JDict([s \in 1..3 |->
                  [k |-> Comidas[s], v |-> JInt(receta_ids[((i * 3 + s - 1) % Len(receta_ids)) + 1])]])
    ELSE JDict([s \in 1..3 |-> [k |-> Comidas[s], v |-> None]])

_planificacion_por_defecto_con_ids(fecha_inicio, recetas_user, hoy) ==
  LET inicio == IF IsDateStr(fecha_inicio) THEN fecha_inicio ELSE hoy
      fecha_dt == DayOf(inicio)
  IN [semana |-> JStr(inicio),
      sugerencias |-> JDict([i \in 1..7 |->
                               [k |-> DateStr(fecha_dt + i - 1), v |-> DiaCiclico(i - 1, recetas_user)]]),
      warning |-> FALSE, error |-> ""]

(***************************************************************************)
(* PlanningService.generar_sugerencias_planificacion                       *)
(***************************************************************************)
\* sugerencias_db ordered by fecha desc: the latest suggestion first
Reverse(s) == [i \in 1..Len(s) |-> s[Len(s) + 1 - i]]

\* recetas_by_name_norm[nombre_norm] = r.id over the suggestions, in order
RECURSIVE ByNameNorm(_, _, _, _)
ByNameNorm(sugs, recetas, i, acc) ==
  IF i > Len(sugs) THEN acc
  ELSE ByNameNorm(sugs, recetas, i + 1,
                  IF NormStr(recetas[sugs[i]]) # ""
                    THEN DictPut(acc, NormStr(recetas[sugs[i]]), sugs[i]) ELSE acc)

\* the key under which a day of the model's plan is kept: "" when the key
\* is dropped
FechaNormalizada(fecha_str) ==
  IF IsDateStr(fecha_str) THEN fecha_str
  ELSE IF fecha_str \in DOMAIN DateInside THEN DateInside[fecha_str]
  ELSE ""

ComidasResueltas(comidas, by_id, by_name, recetas) ==
  IF comidas.t # "dict" THEN JDict([s \in 1..3 |-> [k |-> Comidas[s], v |-> None]])
  ELSE JDict([s \in 1..3 |->
                [k |-> Comidas[s],
                 v |-> _resolver_receta_id(DictGet(comidas, Comidas[s]), by_id, by_name, recetas)]])

\* the post-processing loop over plan_sugerencias.items()
RECURSIVE Cleaned(_, _, _, _, _, _)
Cleaned(items, i, by_id, by_name, recetas, acc) ==
  IF i > Len(items) THEN acc
  ELSE LET fecha_str == FechaNormalizada(items[i].k) IN
       Cleaned(items, i + 1, by_id, by_name, recetas,
               IF fecha_str = "" THEN acc
               ELSE DictPut(acc, fecha_str, ComidasResueltas(items[i].v, by_id, by_name, recetas)))

\* Planificador rows (of this user) that the persist loop adds for cleaned
PlanRows(cleaned, recetas) ==
  {[fecha |-> DayOf(cleaned[i].k), tipo_comida |-> Comidas[s], receta_id |-> cleaned[i].v.v[s].v.v] :
     <<i, s>> \in {<<i, s>> \in (1..Len(cleaned)) \X (1..3) :
                    /\ cleaned[i].v.v[s].v.t = "int"
                    /\ RecetaGet(recetas, cleaned[i].v.v[s].v.v)}}

\* Planificador.limpiar_semana_usuario: the rows left when the delete commits
LimpiarSemana(plan, fecha_inicio) ==
  {r \in plan : ~(r.fecha >= DayOf(fecha_inicio) /\ r.fecha <= DayOf(fecha_inicio) + 6)}

\* uq_usuario_fecha_comida: no two rows of the user share fecha and tipo_comida
PlanUnique(rows) ==
  \A a, b \in rows : (a.fecha = b.fecha /\ a.tipo_comida = b.tipo_comida) => a = b

\* sugs: receta ids of the user's SugerenciaReceta rows in insertion order;
\* plan: the user's Planificador rows; limpiarOk / commitOk: whether the
\* storage layer carries out the delete and the final commit.
\* Returns [out, plan, persist]: the value returned, the Planificador rows
\* left, and whether the persist block (lines 171-213) was entered.
SinPersistir(out, plan) == [out |-> out, plan |-> plan, persist |-> FALSE]

ErrorSugerencias(error) ==
  [semana |-> None, sugerencias |-> JDict(<<>>), warning |-> FALSE, error |-> error]

\* lines 171-218: the persist block and the value returned.  afterClean are
\* the rows left by limpiar_semana_usuario, nuevas the rows the loop adds;
\* the commit fails when the storage layer does or a row breaks
\* uq_usuario_fecha_comida
PlanGuardado(semana, cleaned, afterClean, nuevas, commitOk) ==
  IF commitOk /\ PlanUnique(afterClean \cup nuevas) /\ \A r \in nuevas : r \notin afterClean
    THEN [out |-> [semana |-> semana, sugerencias |-> JDict(cleaned), warning |-> FALSE,
                   error |-> ""],
          plan |-> afterClean \cup nuevas, persist |-> TRUE]
    ELSE [out |-> [semana |-> semana, sugerencias |-> JDict(cleaned), warning |-> TRUE,
                   error |-> ""],
          plan |-> afterClean, persist |-> TRUE]

PlanLimpio(semana, cleaned, recetas, plan, fecha_inicio, limpiarOk, commitOk) ==
  PlanGuardado(semana, cleaned, IF limpiarOk THEN LimpiarSemana(plan, fecha_inicio) ELSE plan,
               PlanRows(cleaned, recetas), commitOk)

\* lines 143-169: the shape checks on plan_sugerencias and the
\* post-processing loop
PlanDeSugerencias(sugerencias_db, recetas, plan, fecha_inicio, hoy, semana, plan_sugerencias, limpiarOk, commitOk) ==
  IF ~Truthy(plan_sugerencias)
    THEN SinPersistir(_planificacion_por_defecto_con_ids(fecha_inicio, sugerencias_db, hoy), plan)
  ELSE IF plan_sugerencias.t # "dict"
    THEN SinPersistir(_planificacion_por_defecto_con_ids(fecha_inicio, <<>>, hoy), plan)
  ELSE PlanLimpio(semana,
                  Cleaned(plan_sugerencias.v, 1, {sugerencias_db[i] : i \in 1..Len(sugerencias_db)},
                          ByNameNorm(sugerencias_db, recetas, 1, <<>>), recetas, <<>>),
                  recetas, plan, fecha_inicio, limpiarOk, commitOk)

\* lines 135-141: what is read from the plan of the model flow
PlanDeRaw(sugerencias_db, recetas, plan, fecha_inicio, hoy, raw_plan, limpiarOk, commitOk) ==
  PlanDeSugerencias(sugerencias_db, recetas, plan, fecha_inicio, hoy,
                    PyOr(PyOr(DictGet(raw_plan, "semana"), DictGet(raw_plan, "week")),
                         JStr(fecha_inicio)),
                    PyOr(PyOr(DictGet(raw_plan, "sugerencias"), DictGet(raw_plan, "menus")),
                         DictGet(raw_plan, "planificacion")),
                    limpiarOk, commitOk)

generar_sugerencias_planificacion(usuarioExiste, sugs, recetas, plan, fecha_inicio, hoy, o1, dbOk, limpiarOk, commitOk) ==
  IF ~usuarioExiste THEN SinPersistir(ErrorSugerencias("usuario_no_encontrado"), plan)
  ELSE IF sugs = <<>> THEN SinPersistir(ErrorSugerencias("no_recetas_usuario"), plan)
  ELSE PlanDeRaw(Reverse(sugs), recetas, plan, fecha_inicio, hoy,
                 generar_planificacion_semanal(o1, fecha_inicio, hoy, recetas, dbOk).result,
                 limpiarOk, commitOk)

(***************************************************************************)
(* RecommendationService._calcular_coincidencia                            *)
(***************************************************************************)
\* the str of a one-word text
WordStr == ("w_Sopa" :> "Sopa") @@ ("w_Arroz" :> "Arroz") @@ ("w_Hervir" :> "Hervir") @@
           ("w_Servir" :> "Servir")

\* x.lower().strip() of a str value
LowerStrip(x) ==
  IF x.t = "str" THEN NormStr(x.v)
  ELSE IF x.t = "text" /\ Len(x.v) = 1 /\ x.v[1] \in DOMAIN WordStr THEN NormStr(WordStr[x.v[1]])
  ELSE "other"

IsStr(x) == x.t \in {"str", "text"}

\* ing.get('nombre', '').lower() raises AttributeError unless nombre is a str
CoincidenciaRaises(receta) ==
  \E i \in 1..Len(receta.ingredientes) : ~IsStr(receta.ingredientes[i].nombre)

\* variant: one count for every pair of a recipe ingredient and a user
\* ingredient that match
CoincidenciaPorPares(ingredientes_usuario, receta) ==
  LET n == Len(receta.ingredientes)
      hits == {p \in (1..n) \X (1..Len(ingredientes_usuario)) :
                 \/ StrIn(LowerStrip(receta.ingredientes[p[1]].nombre), NormStr(ingredientes_usuario[p[2]]))
                 \/ StrIn(NormStr(ingredientes_usuario[p[2]]), LowerStrip(receta.ingredientes[p[1]].nombre))}
  IN IF n = 0 THEN 0 ELSE (Cardinality(hits) * 20000 + n) \div (2 * n)

\* the percentage in hundredths: round(coincidencias / len * 100, 2) * 100
_calcular_coincidencia(ingredientes_usuario, receta) ==
  LET n == Len(receta.ingredientes)
      hits == {i \in 1..n :
                 \E u \in 1..Len(ingredientes_usuario) :
                   \/ StrIn(LowerStrip(receta.ingredientes[i].nombre), NormStr(ingredientes_usuario[u]))
                   \/ StrIn(NormStr(ingredientes_usuario[u]), LowerStrip(receta.ingredientes[i].nombre))}
  IN IF n = 0 THEN 0 ELSE (Cardinality(hits) * 20000 + n) \div (2 * n)

(***************************************************************************)
(* RecommendationService._guardar_receta_minima                            *)
(***************************************************************************)
\* the nombre column value of a str
NombreCol(x) ==
  IF x.t = "str" THEN x.v
  ELSE IF x.t = "text" /\ Len(x.v) = 1 /\ x.v[1] \in DOMAIN WordStr THEN WordStr[x.v[1]]
  ELSE "other"

\* Receta.nombre is nullable=False: the flush of a new row whose nombre is
\* None raises IntegrityError
GuardarRaises(receta_data) == receta_data.nombre.t = "null"

\* [id, recetas]: the id of the row found or created, and the table after
_guardar_receta_minima(receta_data, recetas) ==
  LET existente == RecetaByNombre(recetas, NombreCol(receta_data.nombre)) IN
  IF existente # 0 THEN [id |-> existente, recetas |-> recetas]
  ELSE [id |-> Len(recetas) + 1, recetas |-> Append(recetas, NombreCol(receta_data.nombre))]

(***************************************************************************)
(* RecommendationService.generar_recomendaciones                           *)
(* Returns [raised, result, recetas, sugs, generadas]: whether an          *)
(* exception reaches the caller, the list returned, the tables Receta and  *)
(* SugerenciaReceta (of the user) after the call, and the recipes the loop *)
(* ran over.                                                               *)
(***************************************************************************)
RecetaSalida(receta_data, id, porcentaje) ==
  [id |-> id, nombre |-> receta_data.nombre, tiempo |-> receta_data.tiempo,
   calorias |-> receta_data.calorias, nivel |-> receta_data.nivel, emoji |-> receta_data.emoji,
   razon |-> receta_data.razon, ingredientes |-> receta_data.ingredientes,
   porcentaje_coincidencia |-> porcentaje]

RECURSIVE RecomendacionesLoop(_, _, _, _, _, _)
RecomendacionesLoop(generadas, i, ingredientes, recetas, sugs, acc) ==
  IF i > Len(generadas)
    THEN [raised |-> FALSE, result |-> acc, recetas |-> recetas, sugs |-> sugs,
          generadas |-> generadas]
  ELSE IF CoincidenciaRaises(generadas[i]) \/ GuardarRaises(generadas[i])
    THEN [raised |-> TRUE, result |-> <<>>, recetas |-> recetas, sugs |-> sugs,
          generadas |-> generadas]
  ELSE LET g == _guardar_receta_minima(generadas[i], recetas) IN
       RecomendacionesLoop(generadas, i + 1, ingredientes, g.recetas, Append(sugs, g.id),
         Append(acc, RecetaSalida(generadas[i], g.id, _calcular_coincidencia(ingredientes, generadas[i]))))

\* lines 81-112: the default when the flow gave nothing, then the loop
RecomendacionesDe(generadas, ingredientes, recetas, sugs) ==
  RecomendacionesLoop(IF generadas = <<>> THEN _recetas_por_defecto ELSE generadas,
                      1, ingredientes, recetas, sugs, <<>>)

generar_recomendaciones(usuarioExiste, ingredientes, recetas, sugs, o1, o2) ==
  IF ~usuarioExiste
    THEN [raised |-> TRUE, result |-> <<>>, recetas |-> recetas, sugs |-> sugs,
          generadas |-> <<>>]
  ELSE RecomendacionesDe(generar_recetas_metadata(o1, o2).result, ingredientes, recetas, sugs)

(***************************************************************************)
(* RecommendationService.generar_y_guardar_pasos                           *)
(* stored: the PasoReceta rows of the recipe, ordered by numero_paso.      *)
(* Returns [raised, result, stored, generados]: generados is what the      *)
(* model flow gave.                                                        *)
(***************************************************************************)
\* _safe_int(timer)
SafeInt(x) == IF x.t # "null" /\ PyInt(x).ok THEN JInt(PyInt(x).n) ELSE None

\* the loop that numbers the steps: n = p.get('n') or p.get('numero') or None,
\* and contador for a step without number
RECURSIVE FilasPasos(_, _, _, _)
FilasPasos(pasos, i, contador, acc) ==
  IF i > Len(pasos) THEN acc
  ELSE LET sinNumero == ~Truthy(pasos[i].n) IN
       FilasPasos(pasos, i + 1, IF sinNumero THEN contador + 1 ELSE contador,
                  Append(acc, [n |-> JInt(IF sinNumero THEN contador ELSE pasos[i].n.v),
                               instruccion |-> pasos[i].instruccion,
                               timer |-> SafeInt(pasos[i].timer)]))

\* uq_receta_paso: no two rows of the recipe share numero_paso
PasosUnique(filas) == \A a, b \in 1..Len(filas) : filas[a].n = filas[b].n => a = b

PasosResultadoGuardar(raised, result, stored, generados) ==
  [raised |-> raised, result |-> result, stored |-> stored, generados |-> generados]

\* variant: the delete of the stored rows survives a failed save
PasosBorradosSinRollback(stored, pasos_generados, filas, commitOk) ==
  IF commitOk /\ PasosUnique(filas)
    THEN PasosResultadoGuardar(FALSE, SortPasos(filas), SortPasos(filas), pasos_generados)
    ELSE PasosResultadoGuardar(FALSE, <<>>, <<>>, pasos_generados)

\* lines 241-283: the rows replace the stored ones when the commit goes
\* through, and are read back ordered by numero_paso
PasosGuardados(stored, pasos_generados, filas, commitOk) ==
  IF commitOk /\ PasosUnique(filas)
    THEN PasosResultadoGuardar(FALSE, SortPasos(filas), SortPasos(filas), pasos_generados)
    ELSE PasosResultadoGuardar(FALSE, <<>>, stored, pasos_generados)

\* lines 224-283
PasosDeGenerados(stored, pasos_generados, commitOk) ==
  IF pasos_generados = <<>> THEN PasosResultadoGuardar(FALSE, <<>>, stored, pasos_generados)
  ELSE PasosGuardados(stored, pasos_generados, FilasPasos(pasos_generados, 1, 1, <<>>), commitOk)

generar_y_guardar_pasos(recetaExiste, stored, o1, commitOk) ==
  IF ~recetaExiste THEN PasosResultadoGuardar(TRUE, <<>>, stored, <<>>)
  ELSE PasosDeGenerados(stored, generar_pasos_detallados(o1).result, commitOk)

(***************************************************************************)
(* Texts the model may answer with                                         *)
(***************************************************************************)
\* [{"nombre":"Sopa","tiempo":15,"ingredientes":[{"nombre":"Tomate"}]}]
TxtRecetas ==
  <<"[", "{", "k_nombre", "s_Sopa", "k_tiempo", "15", "k_ingredientes",
    "[", "{", "k_nombre", "s_Tomate", "}", "]", "}", "]">>
\* prose, then a fenced [{"nombre":"Tacos","nivel":3}]
TxtFenced == <<"x", "\n", "J", "\n", "[", "{", "k_nombre", "s_Tacos", "k_nivel", "3", "}", "]", "\n", "K">>
\* [{"nombre":"Sopa","tiempo":15   (cut off)
TxtTruncated == <<"[", "{", "k_nombre", "s_Sopa", "k_tiempo", "15">>
\* nombre: Arroz / tiempo: 15
TxtPlain == <<"p_nombre", " ", "w_Arroz", "\n", "p_tiempo", " ", "15">>
\* [{"tiempo":15}]
TxtSinNombre == <<"[", "{", "k_tiempo", "15", "}", "]">>
\* [{"nombre":"Sopa","ingredientes":[{"id":1}]}]
TxtIngSinNombre ==
  <<"[", "{", "k_nombre", "s_Sopa", "k_ingredientes", "[", "{", "k_id", "1", "}", "]", "}", "]">>
\* [{"nombre":"Tacos","nivel":"abc"}]
TxtNivelMalo == <<"[", "{", "k_nombre", "s_Tacos", "k_nivel", "s_abc", "}", "]">>
\* [{"nombre":"Tacos","nivel":9}]
TxtNivelFuera == <<"[", "{", "k_nombre", "s_Tacos", "k_nivel", "9", "}", "]">>
\* nombre: Arroz / nivel: 9
TxtPlainNivel == <<"p_nombre", " ", "w_Arroz", "\n", "p_nivel", " ", "9">>
\* [{"n":2,"instruccion":"Servir"},{"n":1,"instruccion":"Hervir","timer":15}]
TxtPasos ==
  <<"[", "{", "k_n", "2", "k_instruccion", "s_Servir", "}",
    "{", "k_n", "1", "k_instruccion", "s_Hervir", "k_timer", "15", "}", "]">>
\* [{"n":1,"instruccion":"Hervir"},{"instruccion":"Servir"}]
TxtPasosMixtos ==
  <<"[", "{", "k_n", "1", "k_instruccion", "s_Hervir", "}", "{", "k_instruccion", "s_Servir", "}", "]">>
\* 1. Hervir / 2. Servir
TxtPasosPlain == <<"1.", " ", "w_Hervir", "\n", "7.", " ", "w_Servir">>
\* {"semana":"d00","sugerencias":{"d00":{"desayuno":1,"almuerzo":"ID_RECETA_2","cena":null},
\*                                "d01":{"desayuno":3,"almuerzo":"Sopa","cena":9}}}
TxtPlan ==
  <<"{", "k_semana", "s_d00", "k_sugerencias", "{",
    "k_d00", "{", "k_desayuno", "1", "k_almuerzo", "s_ID_RECETA_2", "k_cena", "null", "}",
    "k_d01", "{", "k_desayuno", "3", "k_almuerzo", "s_Sopa", "k_cena", "9", "}",
    "}", "}">>
\* {"sugerencias":{"d09":{"desayuno":2},"lunes":{"cena":1},"d01T":1}}
TxtPlanOtrasFechas ==
  <<"{", "k_sugerencias", "{", "k_d09", "{", "k_desayuno", "2", "}",
    "k_lunes", "{", "k_cena", "1", "}", "k_d01T", "1", "}", "}">>
\* {"sugerencias":[1]}
TxtPlanLista == <<"{", "k_sugerencias", "[", "1", "]", "}">>
\* {"semana":"d01"}
TxtPlanSinClave == <<"{", "k_semana", "s_d01", "}">>

SampleTexts ==
  {TxtRecetas, TxtFenced, TxtTruncated, TxtPlain, TxtSinNombre, TxtIngSinNombre, TxtNivelMalo,
   TxtPasos, TxtPasosMixtos, TxtPasosPlain, TxtPlan, TxtPlanOtrasFechas, TxtPlanLista,
   TxtPlanSinClave, TxtNivelFuera, TxtPlainNivel}

\* every text of at most n tokens over the alphabet
TextsUpTo(alphabet, n) == UNION {[1..k -> alphabet] : k \in 0..n}

MaxFlowLen == 1
FlowChars == {"[", "]", "{", "}", "x"}

ModelTexts == SampleTexts \cup TextsUpTo(FlowChars, MaxFlowLen)

\* str() of a response or candidate object: an object dump, not JSON
ObjectDump == <<"x", "[", "x", "]">>

\* the response shapes: .text only; candidates with finish_reason STOP and the
\* text in the content parts; candidates with finish_reason MAX_TOKENS; a
\* response whose repr alone shows MAX_TOKENS
ResponsesOf(t) ==
  {Response(t, <<>>, ObjectDump, FALSE),
   Response(<<>>, <<Candidate(t, "STOP", ObjectDump)>>, ObjectDump, FALSE),
   Response(t, <<Candidate(t, "MAX_TOKENS", ObjectDump)>>, ObjectDump, TRUE),
   Response(t, <<>>, ObjectDump, TRUE)}

Responses == UNION {ResponsesOf(t) : t \in ModelTexts}

Outcomes == {Raises} \cup {Returns(r) : r \in Responses}

\* the outcomes that differ in the text only: what the callers of the flows see
TextOutcomes == {Raises} \cup {Returns(Response(t, <<>>, ObjectDump, FALSE)) : t \in ModelTexts}

(***************************************************************************)
(* State                                                                   *)
(***************************************************************************)
VARIABLES
  recetas,   \* table Receta: recetas[i] is the nombre of the row with id i
  sugs,      \* table SugerenciaReceta of the user: receta ids, oldest first
  pasos,     \* table PasoReceta: the rows of recipe 1, ordered by numero_paso
  plan,      \* table Planificador: the rows of the user
  inv,         \* the last invocation: its operation, arguments and outcome
  ingrediente, \* table Ingrediente: the nombre of every row
  inventario,  \* table Inventario: the rows of the user
  tokens,      \* table Token: the refresh tokens stored at login
  emitidos,    \* the JWTs handed to clients so far
  now,         \* the clock, in ticks
  peticiones   \* the requests in progress that run concurrently

\* the state the recipe services leave alone
resto == <<ingrediente, inventario, tokens, emitidos, now, peticiones>>

vars == <<recetas, sugs, pasos, plan, inv, resto>>

RestoInicial ==
  /\ ingrediente = {}
  /\ inventario = {}
  /\ tokens = {}
  /\ emitidos = {}
  /\ now = 0
  /\ peticiones = <<>>

Idle == [op |-> "init"]

(***************************************************************************)
(* GeminiService: the three flows                                          *)
(***************************************************************************)
InitRecetas == {<<>>, <<"Sopa">>, <<"Sopa", "Tacos", "Sopa de Pollo">>}
FechasInicio == {"d00", "d01"}
Hoy == {"d00", "d02"}

InitGemini ==
  /\ recetas \in InitRecetas
  /\ sugs = <<>>
  /\ pasos = <<>>
  /\ plan = {}
  /\ inv = Idle
  /\ RestoInicial

\* The services are called synchronously: a call starts when no other is in
\* progress, and the caller takes the outcome before the next call starts.
TomarResultado ==
  /\ inv # Idle
  /\ inv' = Idle
  /\ UNCHANGED <<recetas, sugs, pasos, plan, resto>>

\* o2 is consumed only when a second call is made
GenerarRecetasMetadata ==
  /\ inv = Idle
  /\ \E o1 \in Outcomes :
       \E o2 \in Outcomes :
         inv' = [op |-> "generar_recetas_metadata"] @@ generar_recetas_metadata(o1, o2)
  /\ UNCHANGED <<recetas, sugs, pasos, plan, resto>>

GenerarPasosDetallados ==
  /\ inv = Idle
  /\ \E o1 \in Outcomes :
       inv' = [op |-> "generar_pasos_detallados"] @@ generar_pasos_detallados(o1)
  /\ UNCHANGED <<recetas, sugs, pasos, plan, resto>>

GenerarPlanificacionSemanal ==
  /\ inv = Idle
  /\ \E o1 \in Outcomes, fecha_inicio \in FechasInicio, hoy \in Hoy, dbOk \in BOOLEAN :
       inv' = [op |-> "generar_planificacion_semanal", fecha_inicio |-> fecha_inicio,
               hoy |-> hoy, dbOk |-> dbOk]
              @@ generar_planificacion_semanal(o1, fecha_inicio, hoy, recetas, dbOk)
  /\ UNCHANGED <<recetas, sugs, pasos, plan, resto>>

NextGemini ==
  \/ GenerarRecetasMetadata
  \/ GenerarPasosDetallados
  \/ GenerarPlanificacionSemanal
  \/ TomarResultado

SpecGemini == InitGemini /\ [][NextGemini]_vars

(***************************************************************************)
(* Properties of the three flows                                           *)
(***************************************************************************)
IsRecetas == inv.op = "generar_recetas_metadata"
IsPasos == inv.op = "generar_pasos_detallados"
IsPlanSemanal == inv.op = "generar_planificacion_semanal"

TextoDe(call) == _extract_text_from_sdk_response(call.outcome.response)

\* a call from whose outcome neither parser gets a recipe
SinRecetas(call) ==
  \/ call.outcome.raises
  \/ /\ _parsear_array_recetas_es(TextoDe(call)) = <<>>
     /\ _parsear_fallback_plaintext(TextoDe(call)) = <<>>

CannedRecipe ==
  /\ Len(inv.result) = 1
  /\ inv.result[1].nombre = JStr("Ensalada de Tomate")
  /\ inv.result = _recetas_por_defecto

\* C1: generar_recetas_metadata returns a non-empty list whatever the model
\* calls do (any text, an exception on the first call, an exception on the
\* retry), and when no call yields a parsable recipe the result is exactly
\* the single canned default recipe.
C1_NonEmptyOrDefault ==
  IsRecetas =>
    /\ inv.result # <<>>
    /\ (\A i \in 1..Len(inv.calls) : SinRecetas(inv.calls[i])) => CannedRecipe

\* the retry call raised and nothing of the first text parses
C1_Witness ==
  /\ IsRecetas
  /\ Len(inv.calls) = 2
  /\ inv.calls[2].outcome.raises
  /\ \A i \in 1..2 : SinRecetas(inv.calls[i])
  /\ CannedRecipe

\* C2: one invocation of generar_recetas_metadata calls the model at most
\* twice; generar_pasos_detallados and generar_planificacion_semanal call it
\* at most once, whatever the responses are.
C2_CallBound ==
  /\ IsRecetas => Len(inv.calls) <= 2
  /\ (IsPasos \/ IsPlanSemanal) => Len(inv.calls) <= 1

\* the pasos flow got nothing from its only call and stopped there
C2_WitnessPasos ==
  /\ IsPasos
  /\ inv.result = <<>>
  /\ ~inv.calls[1].outcome.raises
  /\ Len(inv.calls) = 1

IndexOf(seq, x) == CHOOSE i \in 1..Len(seq) : seq[i] = x
Has(seq, x) == \E i \in 1..Len(seq) : seq[i] = x

FirstParse == _parsear_array_recetas_es(TextoDe(inv.calls[1]))
FirstTruncated == _is_truncated_response(inv.calls[1].outcome.response, TextoDe(inv.calls[1]))

PrimeraTruncada ==
  /\ IsRecetas
  /\ inv.calls[1].outcome = Returns(Response(TxtTruncated, <<>>, ObjectDump, FALSE))

\* C4: when the first response is the unterminated array
\* [{"nombre":"Sopa","tiempo":15 without finish-reason metadata,
\* generar_recetas_metadata detects the truncation and retries, and when the
\* retry returns complete recipe JSON the result is the recipes parsed from
\* the retry, not the canned default nor anything of the first call.
C4_TruncationScenario ==
  PrimeraTruncada =>
    /\ Len(inv.calls) = 2
    /\ inv.calls[2].max_output_tokens = RetryMaxOutputTokens
    /\ _parsear_array_recetas_es(TextoDe(inv.calls[2])) # <<>> =>
         inv.result = _parsear_array_recetas_es(TextoDe(inv.calls[2]))

(***************************************************************************)
(* The JSON block locator and the truncation detector, on every short text *)
(***************************************************************************)
MaxTextLen == 4
LocatorChars == {"[", "]", "{", "}", "x", "J", "K"}

\* nested arrays in noise: longer texts over brackets of one kind
MaxNestLen == 6
NestChars == {"[", "]", "x"}
\* ruido [[1,2],[3,[4,5]]] mas
TxtNested == <<"x", " ", "[", "[", "1", "2", "]", "[", "3", "[", "1", "2", "]", "]", "]", " ", "x">>
\* {"nombre":{"id":[1,2,3]},"name":"Sopa"}
TxtObjetoAnidado ==
  <<"{", "k_nombre", "{", "k_id", "[", "1", "2", "3", "]", "}", "k_name", "s_Sopa", "}">>

LocatorTexts ==
  TextsUpTo(LocatorChars, MaxTextLen) \cup TextsUpTo(NestChars, MaxNestLen)
    \cup {TxtTruncated, TxtRecetas, TxtFenced, TxtNested, TxtObjetoAnidado}

\* the finish-reason metadata a response may carry around a text
MetadataOf(t) ==
  {Response(t, <<>>, ObjectDump, FALSE),
   Response(t, <<Candidate(t, "STOP", ObjectDump)>>, ObjectDump, FALSE),
   Response(t, <<Candidate(t, "MAX_TOKENS", ObjectDump)>>, ObjectDump, TRUE),
   Response(t, <<Candidate(t, "", ObjectDump)>>, ObjectDump, TRUE)}

InitLocator ==
  /\ recetas = <<>>
  /\ sugs = <<>>
  /\ pasos = <<>>
  /\ plan = {}
  /\ inv = Idle
  /\ RestoInicial

ExtractFirstJson ==
  /\ inv = Idle
  /\ \E text \in LocatorTexts :
       inv' = [op |-> "_extract_first_json", text |-> text, result |-> _extract_first_json(text)]
  /\ UNCHANGED <<recetas, sugs, pasos, plan, resto>>

IsTruncatedResponse ==
  /\ inv = Idle
  /\ \E texto \in LocatorTexts :
       \E response \in MetadataOf(texto) :
         inv' = [op |-> "_is_truncated_response", response |-> response, texto |-> texto,
                 result |-> _is_truncated_response(response, texto)]
  /\ UNCHANGED <<recetas, sugs, pasos, plan, resto>>

NextLocator == ExtractFirstJson \/ IsTruncatedResponse \/ TomarResultado

SpecLocator == InitLocator /\ [][NextLocator]_vars

IsTruncatedCall == inv.op = "_is_truncated_response"

\* the response carries no finish reason that mentions MAX and its repr does not either
SinIndicacionMax ==
  /\ ~inv.response.repr_max
  /\ \A i \in 1..Len(inv.response.candidates) :
       ~FinishReasonHasMax(inv.response.candidates[i].finish_reason)

\* the text opens a JSON array or object and holds no closing bracket of that kind
AbreSinCerrar(t) ==
  /\ t # <<>>
  /\ t[1] \in {"[", "{"}
  /\ \A i \in 1..Len(t) : t[i] # Closer(t[1])

\* number of tokens of t[1..n] equal to ch
CountUpTo(t, ch, n) == Cardinality({i \in 1..n : t[i] = ch})

\* the whole text is one balanced array: depth returns to 0 at the last token only
ArrayBalanceado(t) ==
  /\ Len(t) >= 2
  /\ t[1] = "["
  /\ \A i \in 1..Len(t) : t[i] \notin {"J", "K"}
  /\ CountUpTo(t, "[", Len(t)) = CountUpTo(t, "]", Len(t))
  /\ CountUpTo(t, "{", Len(t)) = CountUpTo(t, "}", Len(t))
  /\ \A n \in 1..(Len(t) - 1) :
       /\ CountUpTo(t, "[", n) > CountUpTo(t, "]", n)
       /\ CountUpTo(t, "{", n) >= CountUpTo(t, "}", n)

\* C5: for a response without finish-reason or MAX_TOKENS indication,
\* _is_truncated_response answers true for every text that opens a JSON
\* block with '[' or '{' and lacks the matching closing bracket, and false
\* for every text that is a balanced JSON block.
C5_SyntacticTruncation ==
  (IsTruncatedCall /\ SinIndicacionMax) =>
    /\ AbreSinCerrar(inv.texto) => inv.result = TRUE
    /\ ArrayBalanceado(inv.texto) => inv.result = FALSE

\* the detector has answered for an unterminated array
C5_Reached ==
  /\ IsTruncatedCall
  /\ SinIndicacionMax
  /\ inv.texto = <<"[", "{", "x">>

(***************************************************************************)
(* Properties of the JSON block locator                                    *)
(***************************************************************************)
IsExtractCall == inv.op = "_extract_first_json"

\* the brackets of t[i..] close the open ones of stack, innermost first, and
\* the outermost closes at the last token
RECURSIVE BienAnidado(_, _, _)
BienAnidado(t, i, stack) ==
  IF i > Len(t) THEN stack = <<>>
  ELSE IF t[i] \in {"[", "{"}
    THEN (i = 1 \/ stack # <<>>) /\ BienAnidado(t, i + 1, <<t[i]>> \o stack)
  ELSE IF t[i] \in {"]", "}"}
    THEN stack # <<>> /\ t[i] = Closer(stack[1]) /\ BienAnidado(t, i + 1, Tail(stack))
  ELSE t[i] \notin {"J", "K"} /\ stack # <<>> /\ BienAnidado(t, i + 1, stack)

\* t is the source of one well-formed JSON array or object
BloqueJson(t) == t # <<>> /\ t[1] \in {"[", "{"} /\ BienAnidado(t, 1, <<>>)

\* text without brackets or fences
Prosa(t) == \A i \in 1..Len(t) : t[i] \notin {"[", "]", "{", "}", "J", "K"}

Blanco(t) == \A i \in 1..Len(t) : IsSpace(t[i])

\* t[a+1..b] is a well-formed block and the rest of t is prose
BloqueEnProsa(t, a, b) ==
  /\ Prosa(Slice(t, 1, a))
  /\ BloqueJson(Slice(t, a + 1, b))
  /\ Prosa(Slice(t, b + 1, Len(t)))

\* t[a+1..b] is a well-formed block inside a ```json fence, the rest is prose
BloqueEnFence(t, a, b) ==
  /\ BloqueJson(Slice(t, a + 1, b))
  /\ \E f \in 1..a, g \in (b + 1)..Len(t) :
       /\ t[f] = "J" /\ t[g] = "K"
       /\ Blanco(Slice(t, f + 1, a)) /\ Blanco(Slice(t, b + 1, g - 1))
       /\ Prosa(Slice(t, 1, f - 1)) /\ Prosa(Slice(t, g + 1, Len(t)))

\* C11: for every text that holds exactly one well-formed JSON array or
\* object, in prose or inside a ```json fence, _extract_first_json returns
\* exactly the source of that block; an object with nested objects and
\* arrays is returned whole.
C11_LocatesTheBlock ==
  IsExtractCall =>
    \A a \in 0..Len(inv.text), b \in 1..Len(inv.text) :
      (BloqueEnProsa(inv.text, a, b) \/ BloqueEnFence(inv.text, a, b)) =>
        inv.result = SomeStr(Slice(inv.text, a + 1, b))

\* a balanced array t[a+1..b] with t[a+1] the first '[' of the text and
\* nothing but noise around it
ArrayEnRuido(t, a, b) ==
  /\ a < b
  /\ ArrayBalanceado(Slice(t, a + 1, b))
  /\ Prosa(Slice(t, 1, a))
  /\ Prosa(Slice(t, b + 1, Len(t)))

\* an array that holds another array
Anidado(t) == \E i \in 2..Len(t) : t[i] = "["

\* C12: for a nested array embedded in surrounding non-JSON text,
\* _extract_first_json returns the full outer array, from its first '[' to
\* the ']' that brings the depth back to 0, never a shorter inner array.
C12_FullOuterArray ==
  IsExtractCall =>
    \A a \in 0..Len(inv.text), b \in 1..Len(inv.text) :
      ArrayEnRuido(inv.text, a, b) => inv.result = SomeStr(Slice(inv.text, a + 1, b))

\* the locator has answered for [[1,2],[3,[4,5]]] in noise
C12_Witness ==
  /\ IsExtractCall
  /\ inv.text = TxtNested
  /\ ArrayEnRuido(inv.text, 2, 15)
  /\ Anidado(Slice(inv.text, 3, 15))
  /\ inv.result = SomeStr(Slice(TxtNested, 3, 15))

\* the text opens a JSON array and is cut off before its closing bracket
ArrayCortado(t) ==
  /\ t # <<>>
  /\ t[1] = "["
  /\ \A i \in 1..Len(t) : t[i] \notin {"]", "J", "K"}

\* C13: for a text that opens a JSON array and is cut off before its
\* closing bracket, _extract_first_json returns a partial block, not None.
C13_PartialBlock ==
  (IsExtractCall /\ ArrayCortado(inv.text)) => inv.result.some

(***************************************************************************)
(* The step parsers on their own                                           *)
(***************************************************************************)
\* the ways a step object of the model's array gives its number and its
\* instruction: tokens of the members
NumerosDePaso ==
  {<<>>, <<"k_n", "1">>, <<"k_n", "2">>, <<"k_n", "0">>, <<"k_n", "10000">>, <<"k_n", "s_abc">>}
InstruccionesDePaso ==
  {<<>>, <<"k_instruccion", "s_Hervir">>, <<"k_texto", "s_Servir">>, <<"k_instruccion", "s_">>}

PasosDados == {[n |-> n, instr |-> i] : n \in NumerosDePaso, i \in InstruccionesDePaso}

MaxPasos == 2
ArraysDePasos == UNION {[1..k -> PasosDados] : k \in 0..MaxPasos}

\* the JSON text of an array of step objects
RECURSIVE TextoDePasos(_, _, _)
TextoDePasos(entrada, i, acc) ==
  IF i > Len(entrada) THEN acc \o <<"]">>
  ELSE TextoDePasos(entrada, i + 1, acc \o <<"{">> \o entrada[i].n \o entrada[i].instr \o <<"}">>)

\* lines of a plain answer
MaxPlainLen == 4
PlainChars == {"1.", "7.", "-", "w_Hervir", "\n", "[", " "}
PlainTexts == TextsUpTo(PlainChars, MaxPlainLen) \cup {TxtPasosPlain, TxtPasos}

InitPasos ==
  /\ recetas = <<>>
  /\ sugs = <<>>
  /\ pasos = <<>>
  /\ plan = {}
  /\ inv = Idle
  /\ RestoInicial

ParsearPasos ==
  /\ inv = Idle
  /\ \E entrada \in ArraysDePasos :
       inv' = [op |-> "_parsear_pasos", entrada |-> entrada,
               result |-> _parsear_pasos(TextoDePasos(entrada, 1, <<"[">>))]
  /\ UNCHANGED <<recetas, sugs, pasos, plan, resto>>

ParsearPasosFallbackFromPlaintext ==
  /\ inv = Idle
  /\ \E texto \in PlainTexts :
       inv' = [op |-> "_parsear_pasos_fallback_from_plaintext", texto |-> texto,
               result |-> _parsear_pasos_fallback_from_plaintext(texto)]
  /\ UNCHANGED <<recetas, sugs, pasos, plan, resto>>

NextPasos == ParsearPasos \/ ParsearPasosFallbackFromPlaintext \/ TomarResultado

SpecPasos == InitPasos /\ [][NextPasos]_vars

IsParsearPasos == inv.op = "_parsear_pasos"
IsPasosFallback == inv.op = "_parsear_pasos_fallback_from_plaintext"

\* the step number a step object gives: None when missing or unparsable
NumeroDado(p) ==
  IF p.n # <<>> /\ ScalarOf[p.n[2]].t = "int" THEN ScalarOf[p.n[2]] ELSE None

\* the instruction a step object gives: "" when there is none
InstruccionDada(p) == IF p.instr = <<>> THEN JStr("") ELSE ScalarOf[p.instr[2]]

\* the record expected for a step object that is kept
PasoEsperado(p) == [n |-> NumeroDado(p), instruccion |-> InstruccionDada(p), timer |-> None]

ConInstruccion(entrada) == SelectSeq(entrada, LAMBDA p : InstruccionDada(p) # JStr(""))

Veces(seq, x) == Cardinality({i \in 1..Len(seq) : seq[i] = x})

\* C17: _parsear_pasos returns exactly the elements of the input array that
\* have a non-empty instruction (under any of its keys), sorted ascending
\* by step number, every step whose number is missing or unparsable after
\* all numbered steps, for every step number the model can emit.
C17_FilteredAndSorted ==
  IsParsearPasos =>
    LET kept == [i \in 1..Len(ConInstruccion(inv.entrada)) |->
                   PasoEsperado(ConInstruccion(inv.entrada)[i])]
    IN /\ Len(inv.result) = Len(kept)
       /\ \A i \in 1..Len(kept) : Veces(inv.result, kept[i]) = Veces(kept, kept[i])
       /\ \A i, j \in 1..Len(inv.result) :
            i < j =>
              /\ inv.result[i].n = None => inv.result[j].n = None
              /\ (inv.result[i].n # None /\ inv.result[j].n # None) =>
                   inv.result[i].n.v <= inv.result[j].n.v

\* C18: for every input text the steps returned by
\* _parsear_pasos_fallback_from_plaintext carry the numbers 1, 2, ..., k in
\* output order, whatever numbers appear in the source lines.
C18_SequentialNumbers ==
  IsPasosFallback => \A i \in 1..Len(inv.result) : inv.result[i].n = JInt(i)

\* the second line is numbered 7 in the text and 2 in the output
C18_Witness ==
  /\ IsPasosFallback
  /\ inv.texto = TxtPasosPlain
  /\ Len(inv.result) = 2
  /\ inv.result[2].n = JInt(2)

(***************************************************************************)
(* The recipe array parser on its own                                      *)
(***************************************************************************)
\* the ways a recipe object of the model's array gives its name and its
\* numeric fields: tokens of the members
NombresDeReceta == {<<>>, <<"k_nombre", "s_Sopa">>, <<"k_nombre", "s_Tacos">>}
TiemposDeReceta == {<<>>, <<"k_tiempo", "15">>, <<"k_tiempo", "s_abc">>}
CaloriasDeReceta == {<<>>, <<"k_calorias", "s_abc">>}
NivelesDeReceta ==
  {<<>>, <<"k_nivel", "1">>, <<"k_nivel", "9">>, <<"k_nivel", "s_1">>, <<"k_nivel", "s_abc">>}

RecetasDadas ==
  {[nombre |-> n, tiempo |-> t, calorias |-> c, nivel |-> v] :
     n \in NombresDeReceta, t \in TiemposDeReceta, c \in CaloriasDeReceta, v \in NivelesDeReceta}

MaxRecetasArray == 2
ArraysDeRecetas == UNION {[1..k -> RecetasDadas] : k \in 0..MaxRecetasArray}

\* the JSON text of an array of recipe objects
RECURSIVE TextoDeRecetas(_, _, _)
TextoDeRecetas(entrada, i, acc) ==
  IF i > Len(entrada) THEN acc \o <<"]">>
  ELSE TextoDeRecetas(entrada, i + 1,
         acc \o <<"{">> \o entrada[i].nombre \o entrada[i].tiempo \o entrada[i].calorias
             \o entrada[i].nivel \o <<"}">>)

ParsearArrayRecetasEs ==
  /\ inv = Idle
  /\ \E entrada \in ArraysDeRecetas :
       inv' = [op |-> "_parsear_array_recetas_es", entrada |-> entrada,
               result |-> _parsear_array_recetas_es(TextoDeRecetas(entrada, 1, <<"[">>))]
  /\ UNCHANGED <<recetas, sugs, pasos, plan, resto>>

NextRecetas == ParsearArrayRecetasEs \/ TomarResultado

SpecRecetas == InitPasos /\ [][NextRecetas]_vars

IsParsearArray == inv.op = "_parsear_array_recetas_es"

\* the value expected for a numeric field: its integer when int() accepts
\* what the model gave, the default when the field is missing or uncoercible
CampoEsperado(miembro, dflt) ==
  IF miembro = <<>> THEN dflt
  ELSE IF PyInt(ScalarOf[miembro[2]]).ok THEN JInt(PyInt(ScalarOf[miembro[2]]).n)
  ELSE dflt

\* C21: in _parsear_array_recetas_es a numeric field (tiempo, calorias,
\* nivel) that cannot be coerced to an integer is replaced by its default,
\* and that recipe and all other recipes of the array are still returned.
C21_UncoercibleDefaulted ==
  IsParsearArray =>
    /\ Len(inv.result) = Len(inv.entrada)
    /\ \A i \in 1..Len(inv.result) :
         /\ inv.result[i].tiempo = CampoEsperado(inv.entrada[i].tiempo, None)
         /\ inv.result[i].calorias = CampoEsperado(inv.entrada[i].calorias, None)
         /\ inv.result[i].nivel = CampoEsperado(inv.entrada[i].nivel, JInt(1))

(***************************************************************************)
(* PlanningService over the tables                                         *)
(***************************************************************************)
\* the Receta table is shared by every user; the suggestions of the calling
\* user name some of its rows
RecetasDB == <<"Sopa", "Tacos", "Sopa de Pollo">>
InitSugs == {<<>>, <<1>>, <<2, 1>>}

\* the values a slot of the model's plan may hold
RawValues ==
  {None, JInt(1), JInt(3), JInt(9), JBool(TRUE), JStr("2"), JStr("ID_RECETA_2"), JStr("Sopa"),
   JStr("Tacos"), JStr(""), JStr("abc"), JList(<<>>),
   JDict(<<[k |-> "id", v |-> JInt(3)]>>),
   JDict(<<[k |-> "id", v |-> JStr("abc")], [k |-> "nombre", v |-> JStr("Sopa")]>>),
   JDict(<<[k |-> "name", v |-> JStr("Tacos")]>>)}

InitPlan ==
  /\ recetas = RecetasDB
  /\ sugs \in InitSugs
  /\ pasos = <<>>
  /\ plan = {}
  /\ inv = Idle
  /\ RestoInicial

\* the ids of the recipes the user has: the keys of recetas_by_id
Catalogo == {sugs[i] : i \in 1..Len(sugs)}

\* the effect of one call: r is what generar_sugerencias_planificacion gives
SugerenciasHechas(usuarioExiste, fecha_inicio, hoy, o1, limpiarOk, commitOk, r) ==
  /\ plan' = r.plan
  /\ inv' = [op |-> "generar_sugerencias_planificacion", usuarioExiste |-> usuarioExiste,
             fecha_inicio |-> fecha_inicio, hoy |-> hoy, modelo |-> o1,
             limpiarOk |-> limpiarOk, commitOk |-> commitOk, catalogo |-> Catalogo,
             persist |-> r.persist, out |-> r.out]

GenerarSugerenciasPlanificacion ==
  /\ inv = Idle
  /\ \E usuarioExiste \in BOOLEAN :
       \E o1 \in (IF usuarioExiste THEN TextOutcomes ELSE {Raises}),
          fecha_inicio \in FechasInicio, hoy \in Hoy,
          dbOk \in BOOLEAN, limpiarOk \in BOOLEAN, commitOk \in BOOLEAN :
         SugerenciasHechas(usuarioExiste, fecha_inicio, hoy, o1, limpiarOk, commitOk,
                           generar_sugerencias_planificacion(usuarioExiste, sugs, recetas, plan,
                                                             fecha_inicio, hoy, o1, dbOk,
                                                             limpiarOk, commitOk))
  /\ UNCHANGED <<recetas, sugs, pasos, resto>>

ResolverRecetaId ==
  /\ inv = Idle
  /\ \E raw_value \in RawValues :
       inv' = [op |-> "_resolver_receta_id", raw_value |-> raw_value, catalogo |-> Catalogo,
               result |-> _resolver_receta_id(raw_value, Catalogo,
                                              ByNameNorm(Reverse(sugs), recetas, 1, <<>>), recetas)]
  /\ UNCHANGED <<recetas, sugs, pasos, plan, resto>>

NextPlan == GenerarSugerenciasPlanificacion \/ ResolverRecetaId \/ TomarResultado

SpecPlan == InitPlan /\ [][NextPlan]_vars

IsSugerencias == inv.op = "generar_sugerencias_planificacion"
IsResolver == inv.op = "_resolver_receta_id"

\* a plan was returned to a user who has at least one suggested recipe
PlanDevuelto == IsSugerencias /\ inv.usuarioExiste /\ inv.catalogo # {}

Dias(sugerencias) == {sugerencias.v[i].k : i \in 1..Len(sugerencias.v)}
Semana(fecha_inicio) == {DateStr(DayOf(fecha_inicio) + i) : i \in 0..6}

TresComidas(dia) ==
  /\ dia.t = "dict"
  /\ Len(dia.v) = 3
  /\ {dia.v[s].k : s \in 1..3} = {"desayuno", "almuerzo", "cena"}

\* C6: every plan returned by generar_sugerencias_planificacion to a user
\* with at least one suggested recipe holds exactly the 7 consecutive dates
\* that start at fecha_inicio, each with exactly the slots desayuno,
\* almuerzo and cena, whatever the model answered.
C6_SevenDays ==
  PlanDevuelto =>
    /\ Len(inv.out.sugerencias.v) = 7
    /\ Dias(inv.out.sugerencias) = Semana(inv.fecha_inicio)
    /\ \A i \in 1..Len(inv.out.sugerencias.v) : TresComidas(inv.out.sugerencias.v[i].v)

Slots(sugerencias) ==
  {sugerencias.v[i].v.v[s].v : <<i, s>> \in (1..Len(sugerencias.v)) \X (1..3)}

\* C7: _resolver_receta_id returns null or a key of recetas_by_id, the
\* catalog of the calling user, for every raw value; so every non-null slot
\* of a plan returned by generar_sugerencias_planificacion names a recipe
\* of that catalog.
C7_NeverInventsId ==
  /\ IsResolver => (inv.result = None \/ inv.result.v \in inv.catalogo)
  /\ PlanDevuelto => \A v \in Slots(inv.out.sugerencias) : (v = None \/ v.v \in inv.catalogo)

(***************************************************************************)
(* PlanningService: the resolver and the default plan on their own         *)
(***************************************************************************)
\* the suggestions of the calling user, oldest first
SugsResolver == InitSugs \cup {<<3, 1>>, <<1, 3>>}

\* more values a slot of the model's plan may hold
RawValuesResolver ==
  RawValues \cup
    {JInt(2), JStr("1"), JStr("3"), JStr("9"), JStr("receta_id_2"), JStr(" SOPA "), JStr("Pollo"),
     JStr("Sopa de Pollo"), JStr(" "),
     JDict(<<[k |-> "id", v |-> JInt(1)]>>),
     JDict(<<[k |-> "receta_id", v |-> JInt(2)]>>),
     JDict(<<[k |-> "recipe_id", v |-> JStr("1")]>>),
     JDict(<<[k |-> "id", v |-> JInt(3)], [k |-> "nombre", v |-> JStr("Sopa")]>>),
     JDict(<<[k |-> "nombre", v |-> JStr("Pollo")]>>),
     JDict(<<[k |-> "nombre", v |-> JStr("")]>>),
     JDict(<<[k |-> "nombre", v |-> JStr(" ")]>>),
     JDict(<<[k |-> "name", v |-> JStr("")]>>),
     JDict(<<[k |-> "name", v |-> JStr(" SOPA ")]>>)}

\* what the caller passes as fecha_inicio: a date or a string that is none
FechasDadas == FechasInicio \cup {"d09", "lunes", ""}

\* the ids of the recipes handed to the default plan
MaxRecetasUser == 3
RecetasUser == UNION {[1..k -> {1, 2, 3}] : k \in 0..MaxRecetasUser}

InitResolver ==
  /\ recetas = RecetasDB
  /\ sugs \in SugsResolver
  /\ pasos = <<>>
  /\ plan = {}
  /\ inv = Idle
  /\ RestoInicial

ResolverHecho(raw_value, by_name) ==
  inv' = [op |-> "_resolver_receta_id", raw_value |-> raw_value, catalogo |-> Catalogo,
          by_name |-> by_name,
          result |-> _resolver_receta_id(raw_value, Catalogo, by_name, recetas)]

ResolverRecetaIdSolo ==
  /\ inv = Idle
  /\ \E raw_value \in RawValuesResolver :
       ResolverHecho(raw_value, ByNameNorm(Reverse(sugs), recetas, 1, <<>>))
  /\ UNCHANGED <<recetas, sugs, pasos, plan, resto>>

PlanificacionPorDefectoConIds ==
  /\ inv = Idle
  /\ \E fecha_inicio \in FechasDadas, recetas_user \in RecetasUser, hoy \in Hoy :
       inv' = [op |-> "_planificacion_por_defecto_con_ids", fecha_inicio |-> fecha_inicio,
               recetas_user |-> recetas_user, hoy |-> hoy,
               out |-> _planificacion_por_defecto_con_ids(fecha_inicio, recetas_user, hoy)]
  /\ UNCHANGED <<recetas, sugs, pasos, plan, resto>>

NextResolver == ResolverRecetaIdSolo \/ PlanificacionPorDefectoConIds \/ TomarResultado

SpecResolver == InitResolver /\ [][NextResolver]_vars

\* the decimal string of an id
DigitStr == (1 :> "1") @@ (2 :> "2") @@ (3 :> "3") @@ (9 :> "9")

\* placeholder strings that embed an id
Placeholders == (2 :> {"ID_RECETA_2", "receta_id_2"})

IdKeys == {"id", "receta_id", "recipe_id"}

\* raw is one of the numeric forms of id n: the integer, its digit string, a
\* placeholder embedding it, or a mapping with one id key equal to it
FormaNumerica(raw, n) ==
  \/ raw = JInt(n)
  \/ raw = JStr(DigitStr[n])
  \/ n \in DOMAIN Placeholders /\ raw.t = "str" /\ raw.v \in Placeholders[n]
  \/ /\ raw.t = "dict"
     /\ Len(raw.v) = 1
     /\ raw.v[1].k \in IdKeys
     /\ raw.v[1].v \in {JInt(n), JStr(DigitStr[n])}

\* C14: when recipe N is in the catalog, _resolver_receta_id maps the
\* integer N, the digit string "N", a placeholder string embedding N and a
\* mapping with key id, receta_id or recipe_id equal to N all to N; an
\* integer or digit string naming an id absent from the catalog, and None,
\* map to null.
C14_NumericForms ==
  IsResolver =>
    /\ \A n \in inv.catalogo : FormaNumerica(inv.raw_value, n) => inv.result = JInt(n)
    /\ inv.raw_value = None => inv.result = None
    /\ \A n \in DOMAIN DigitStr \ inv.catalogo :
         inv.raw_value \in {JInt(n), JStr(DigitStr[n])} => inv.result = None

\* the strings of raw that go through name matching: a string value itself,
\* the nombre (else name) value of a mapping
NombresDe(raw) ==
  IF raw.t = "str" THEN {raw.v}
  ELSE IF raw.t = "dict"
    THEN {x.v : x \in {y \in {PyOr(DictGet(raw, "nombre"), DictGet(raw, "name"))} : y.t = "str"}}
  ELSE {}

\* positions of the keys of by_name equal to s, and of those that contain s
\* or are contained in it
KeysEqual(by_name, s) == {i \in 1..Len(by_name) : by_name[i].k = s}
KeysContain(by_name, s) ==
  {i \in 1..Len(by_name) : StrIn(by_name[i].k, s) \/ StrIn(s, by_name[i].k)}

MinOf(S) == CHOOSE i \in S : \A j \in S : i <= j

\* what name matching gives for the name
NameMatched(by_name, name, result) ==
  LET s == NormStr(IF NormStr(name) = "" THEN "" ELSE name) IN
  /\ KeysEqual(by_name, s) # {} => result = JInt(by_name[MinOf(KeysEqual(by_name, s))].v)
  /\ (KeysEqual(by_name, s) = {} /\ KeysContain(by_name, s) # {}) =>
       result = JInt(by_name[MinOf(KeysContain(by_name, s))].v)

\* C15 as stated: a string value, or the nombre/name value of a mapping,
\* whose trimmed lower-cased form equals a key of recetas_by_name_norm
\* resolves to that key's id; when no key is equal but some key contains it
\* or is contained in it, it resolves to the id of the first such key in
\* the map's iteration order.
C15_NameMatching ==
  IsResolver => \A name \in NombresDe(inv.raw_value) : NameMatched(inv.by_name, name, inv.result)

\* no numeric branch of the resolver answers for raw: no number in a string
\* names a Receta row, no id key of a mapping does, and the name of a
\* mapping is not empty
SinFormaNumerica(raw) ==
  /\ raw.t = "str" =>
       /\ ~(raw.v \in DOMAIN IntOfStr /\ RecetaGet(recetas, IntOfStr[raw.v]))
       /\ ~(raw.v \in DOMAIN FirstNumber /\ RecetaGet(recetas, FirstNumber[raw.v]))
       /\ ~(raw.v \in DOMAIN RecetaIdNumber /\ RecetaGet(recetas, RecetaIdNumber[raw.v]))
  /\ raw.t = "dict" =>
       /\ \A key \in IdKeys :
            ~(Truthy(DictGet(raw, key)) /\ PyInt(DictGet(raw, key)).ok
              /\ RecetaGet(recetas, PyInt(DictGet(raw, key)).n))
       /\ \A name \in NombresDe(raw) : name # ""

\* C15 amended: name matching applies to a value for which no numeric
\* branch of the resolver answered first; then an equal key gives its id,
\* and when no key is equal the first key (in iteration order) that
\* contains the name or is contained in it gives its id.
C15_NameMatchingAfterIds ==
  (IsResolver /\ SinFormaNumerica(inv.raw_value)) =>
    \A name \in NombresDe(inv.raw_value) : NameMatched(inv.by_name, name, inv.result)

\* "Sopa" resolved to the key equal to it although an earlier key contains it
C15_Witness ==
  /\ IsResolver
  /\ inv.raw_value = JStr("Sopa")
  /\ SinFormaNumerica(inv.raw_value)
  /\ Len(inv.by_name) = 2
  /\ inv.by_name[1].k = "sopa de pollo"
  /\ inv.by_name[2].k = "sopa"
  /\ inv.result = JInt(inv.by_name[2].v)

IsPorDefectoConIds == inv.op = "_planificacion_por_defecto_con_ids"

\* the date the default plan starts at
InicioEfectivo == IF IsDateStr(inv.fecha_inicio) THEN inv.fecha_inicio ELSE inv.hoy

\* slot s (0, 1, 2) of day i (0..6) of the default plan
SlotEsperado(ids, i, s) ==
  IF ids = <<>> THEN None ELSE JInt(ids[((i * 3 + s) % Len(ids)) + 1])

\* C16: _planificacion_por_defecto_con_ids yields exactly 7 consecutive
\* dates from the effective start (the given date when it parses, else the
\* current date, then also reported as semana), each with the slots
\* desayuno, almuerzo, cena in that order; with a non-empty id list slot s
\* of day i is ids[(i*3 + s) mod len(ids)], with an empty list every slot
\* is null.
C16_DefaultPlan ==
  IsPorDefectoConIds =>
    /\ inv.out.semana = JStr(InicioEfectivo)
    /\ Len(inv.out.sugerencias.v) = 7
    /\ \A i \in 0..6 :
         LET dia == inv.out.sugerencias.v[i + 1] IN
         /\ dia.k = DateStr(DayOf(InicioEfectivo) + i)
         /\ dia.v.t = "dict"
         /\ Len(dia.v.v) = 3
         /\ \A s \in 0..2 :
              /\ dia.v.v[s + 1].k = <<"desayuno", "almuerzo", "cena">>[s + 1]
              /\ dia.v.v[s + 1].v = SlotEsperado(inv.recetas_user, i, s)

\* the start did not parse and the cycle over two recipes wrapped around
C16_Witness ==
  /\ IsPorDefectoConIds
  /\ ~IsDateStr(inv.fecha_inicio)
  /\ inv.recetas_user = <<2, 1>>
  /\ inv.out.semana = JStr(inv.hoy)
  /\ inv.out.sugerencias.v[2].k = DateStr(DayOf(inv.hoy) + 1)
  /\ inv.out.sugerencias.v[2].v.v[1].v = JInt(1)

(***************************************************************************)
(* RecommendationService over the tables                                   *)
(***************************************************************************)
MaxSugerencias == 2

\* the names of the ingredients of the user's inventory
Inventarios == {<<>>, <<"Tomate">>}

\* a first answer cut by the token limit, and what the retry may bring
TruncatedOutcome ==
  Returns(Response(TxtTruncated, <<Candidate(TxtTruncated, "MAX_TOKENS", ObjectDump)>>,
                   ObjectDump, TRUE))
RetryOutcomes ==
  {Raises} \cup {Returns(Response(t, <<>>, ObjectDump, FALSE)) : t \in {TxtRecetas, TxtSinNombre, <<"x">>}}

InitRecom ==
  /\ recetas \in {<<>>, <<"Sopa">>}
  /\ sugs = <<>>
  /\ pasos = <<>>
  /\ plan = {}
  /\ inv = Idle
  /\ RestoInicial

\* the effect of one call: r is what generar_recomendaciones gives
RecomendacionesHechas(usuarioExiste, ingredientes, r) ==
  /\ recetas' = r.recetas
  /\ sugs' = r.sugs
  /\ inv' = [op |-> "generar_recomendaciones", usuarioExiste |-> usuarioExiste,
             ingredientes |-> ingredientes, generadas |-> r.generadas,
             raised |-> r.raised, result |-> r.result]

\* o2 is consumed only when the flow makes its second call
GenerarRecomendaciones ==
  /\ inv = Idle
  /\ Len(sugs) < MaxSugerencias
  /\ \E usuarioExiste \in BOOLEAN, ingredientes \in Inventarios :
       \E o1 \in (IF usuarioExiste THEN TextOutcomes \cup {TruncatedOutcome} ELSE {Raises}) :
         \E o2 \in (IF o1 = TruncatedOutcome THEN RetryOutcomes ELSE {Raises}) :
           RecomendacionesHechas(usuarioExiste, ingredientes,
                                 generar_recomendaciones(usuarioExiste, ingredientes, recetas,
                                                         sugs, o1, o2))
  /\ UNCHANGED <<pasos, plan, resto>>

\* the effect of one call: r is what generar_y_guardar_pasos gives
PasosHechos(receta_id, recetaExiste, commitOk, r) ==
  /\ pasos' = r.stored
  /\ inv' = [op |-> "generar_y_guardar_pasos", receta_id |-> receta_id,
             recetaExiste |-> recetaExiste, generados |-> r.generados, commitOk |-> commitOk,
             antes |-> pasos, raised |-> r.raised, result |-> r.result]

\* the steps of recipe 1 are the ones kept in pasos; receta_id 9 names no row
GenerarYGuardarPasos ==
  /\ inv = Idle
  /\ \E receta_id \in {1, 9}, commitOk \in BOOLEAN :
       \E o1 \in (IF RecetaGet(recetas, receta_id) THEN TextOutcomes ELSE {Raises}) :
         PasosHechos(receta_id, RecetaGet(recetas, receta_id), commitOk,
                     generar_y_guardar_pasos(RecetaGet(recetas, receta_id), pasos, o1, commitOk))
  /\ UNCHANGED <<recetas, sugs, plan, resto>>

NextRecom == GenerarRecomendaciones \/ GenerarYGuardarPasos \/ TomarResultado

SpecRecom == InitRecom /\ [][NextRecom]_vars

IsRecomendaciones == inv.op = "generar_recomendaciones"
IsGuardarPasos == inv.op = "generar_y_guardar_pasos"

\* C8: for an existing user generar_recomendaciones never raises because of
\* what the model returned (recipe and ingredient records may miss any
\* field or hold null in it) and returns a non-empty list of recipes.
C8_NeverRaises ==
  (IsRecomendaciones /\ inv.usuarioExiste) =>
    /\ ~inv.raised
    /\ inv.result # <<>>

\* the storage layer failed while the generated steps were being saved: the
\* commit failed or the rows broke uq_receta_paso
FalloGuardandoPasos ==
  /\ IsGuardarPasos
  /\ inv.recetaExiste
  /\ inv.generados # <<>>
  /\ (~inv.commitOk \/ ~PasosUnique(FilasPasos(inv.generados, 1, 1, <<>>)))

\* the storage layer failed while the generated plan was being saved: the
\* delete of the week or the commit of the new rows
FalloGuardandoPlan ==
  /\ IsSugerencias
  /\ inv.persist
  /\ (~inv.limpiarOk \/ ~inv.commitOk)

\* what the caller of generar_y_guardar_pasos gets when the model produced nothing
PasosSinGenerar == [raised |-> FALSE, result |-> <<>>]

\* C10: a storage failure while saving generated steps or generated plan
\* rows reaches the caller as an error or as a result carrying a warning,
\* an outcome different from that of a successful save and from that of a
\* run in which the model produced nothing.
C10_PersistenceErrorsSurface ==
  /\ FalloGuardandoPasos =>
       /\ [raised |-> inv.raised, result |-> inv.result] # PasosSinGenerar
       /\ inv.raised
  /\ FalloGuardandoPlan => (inv.out.warning \/ inv.out.error # "")

(***************************************************************************)
(* An exception of the model call against an empty response                *)
(***************************************************************************)
\* the only call returned a response with no text, no candidates and no
\* MAX_TOKENS mark
RespuestaVacia ==
  /\ inv.op \in {"generar_recetas_metadata", "generar_pasos_detallados",
                 "generar_planificacion_semanal"}
  /\ inv.calls[1].outcome = Returns(Response(<<>>, <<>>, ObjectDump, FALSE))

\* C9: for each of the three flows, the result when the model returns a
\* response with empty text equals the result when the model call raises
\* with the same arguments.
C9_ExceptionAsEmpty ==
  RespuestaVacia =>
    /\ IsRecetas => inv.result = generar_recetas_metadata(Raises, Raises).result
    /\ IsPasos => inv.result = generar_pasos_detallados(Raises).result
    /\ IsPlanSemanal =>
         inv.result = generar_planificacion_semanal(Raises, inv.fecha_inicio, inv.hoy,
                                                    recetas, inv.dbOk).result

(***************************************************************************)
(* The recipe records of the metadata pipeline                             *)
(***************************************************************************)
\* C19: every recipe record produced by the metadata pipeline (structured
\* parser, plaintext fallback, canned default) has a difficulty level in
\* {1,2,3}; a level missing or outside 1..3 in the model output becomes 1.
C19_LevelInRange ==
  IsRecetas => \A i \in 1..Len(inv.result) : inv.result[i].nivel \in {JInt(1), JInt(2), JInt(3)}

\* C20: every recipe record produced by the metadata pipeline has a name
\* that is a string: when the model output gives no name the record's name
\* is a placeholder, not null, in the structured parser as well as in the
\* plaintext fallback.
C20_NameIsString ==
  IsRecetas => \A i \in 1..Len(inv.result) : IsStr(inv.result[i].nombre)

(***************************************************************************)
(* The ingredient match percentage on its own                              *)
(***************************************************************************)
NombresIngrediente == {"Tomate", "Ensalada de Tomate", "Pollo", " SOPA ", "Sopa de Pollo", ""}

MaxIngUsuario == 2
MaxIngReceta == 3
IngredientesUsuario == UNION {[1..k -> NombresIngrediente] : k \in 0..MaxIngUsuario}
IngredientesReceta == UNION {[1..k -> NombresIngrediente] : k \in 0..MaxIngReceta}

\* a recipe as the parser hands it on, with the ingredient names given
RecetaCon(nombres) ==
  [nombre |-> JStr("Sopa"), emoji |-> DefaultEmoji, tiempo |-> None, calorias |-> None,
   nivel |-> JInt(1), razon |-> JStr(""),
   ingredientes |-> [i \in 1..Len(nombres) |->
                       [nombre |-> JStr(nombres[i]), cantidad |-> JInt(0), unidad |-> JStr(""),
                        emoji |-> None, en_inventario |-> TRUE]]]

CalcularCoincidencia ==
  /\ inv = Idle
  /\ \E ingredientes_usuario \in IngredientesUsuario, nombres \in IngredientesReceta :
       inv' = [op |-> "_calcular_coincidencia", ingredientes_usuario |-> ingredientes_usuario,
               nombres |-> nombres,
               result |-> _calcular_coincidencia(ingredientes_usuario, RecetaCon(nombres))]
  /\ UNCHANGED <<recetas, sugs, pasos, plan, resto>>

NextCoincidencia == CalcularCoincidencia \/ TomarResultado

SpecCoincidencia == InitPasos /\ [][NextCoincidencia]_vars

IsCoincidencia == inv.op = "_calcular_coincidencia"

\* the recipe ingredients whose normalised name contains, or is contained
\* in, some normalised user ingredient
Coincidentes(ingredientes_usuario, nombres) ==
  {i \in 1..Len(nombres) :
     \E u \in 1..Len(ingredientes_usuario) :
       \/ StrIn(NormStr(nombres[i]), NormStr(ingredientes_usuario[u]))
       \/ StrIn(NormStr(ingredientes_usuario[u]), NormStr(nombres[i]))}

\* r hundredths is x / n per cent rounded to two decimals
EsPorcentaje(r, x, n) ==
  /\ 2 * (r * n - 10000 * x) <= n
  /\ 2 * (10000 * x - r * n) <= n

\* C22: _calcular_coincidencia returns the percentage, between 0 and 100,
\* of recipe ingredients whose trimmed lower-cased name contains or is
\* contained in some trimmed lower-cased user ingredient; each recipe
\* ingredient counts at most once, and the result is 0 when the recipe has
\* no ingredients or the user has none.
C22_MatchPercentage ==
  IsCoincidencia =>
    /\ inv.result \in 0..10000
    /\ (inv.nombres = <<>> \/ inv.ingredientes_usuario = <<>>) => inv.result = 0
    /\ inv.nombres # <<>> =>
         EsPorcentaje(inv.result, Cardinality(Coincidentes(inv.ingredientes_usuario, inv.nombres)),
                      Len(inv.nombres))

\* one of three recipe ingredients matches, and it matches two user
\* ingredients: 33.33 per cent
C22_Witness ==
  /\ IsCoincidencia
  /\ inv.nombres = <<"Tomate", "Pollo", " SOPA ">>
  /\ inv.ingredientes_usuario = <<"Ensalada de Tomate", "Tomate">>
  /\ inv.result = 3333

(***************************************************************************)
(* Floats (library): <, min, max and float()                               *)
(***************************************************************************)
\* the place of a number on the line, in hundredths
Ext(x) ==
  CASE x.t = "inf" -> 1000000
    [] x.t = "ninf" -> 0 - 1000000
    [] x.t = "int" -> 100 * x.v
    [] x.t = "bool" -> IF x.v THEN 100 ELSE 0
    [] OTHER -> x.v

IsNumber(x) == x.t \in {"float", "nan", "inf", "ninf", "int", "bool"}

\* a < b: every comparison with nan is false
Lt(a, b) == a.t # "nan" /\ b.t # "nan" /\ Ext(a) < Ext(b)

\* min(a, b) and max(a, b) keep the first argument unless the second is
\* strictly smaller (larger)
PyMin(a, b) == IF Lt(b, a) THEN b ELSE a
PyMax(a, b) == IF Lt(a, b) THEN b ELSE a

FloatOfStr == ("2" :> 200)

\* float(x): [ok, val]; ok = FALSE stands for ValueError / TypeError
PyFloat(x) ==
  CASE x.t \in {"float", "nan", "inf", "ninf"} -> [ok |-> TRUE, val |-> x]
    [] x.t \in {"int", "bool"} -> [ok |-> TRUE, val |-> Num(Ext(x))]
    [] x.t = "str" /\ x.v \in DOMAIN FloatOfStr -> [ok |-> TRUE, val |-> Num(FloatOfStr[x.v])]
    [] OTHER -> [ok |-> FALSE, val |-> Num(0)]

\* d.get(key, dflt)
DictGetOr(d, key, dflt) == IF DictHas(d, key) THEN DictGet(d, key) ELSE dflt

(***************************************************************************)
(* inventory/routes.py: _procesar_ingrediente and the commit of its caller *)
(***************************************************************************)
\* variant: the value as given, without max(0.0, min(1.0, v))
SinClamp(v) == v

\* max(0.0, min(1.0, v))
Clamp01(v) == PyMax(Num(0), PyMin(Num(100), v))

\* lines 226-231: the confidence, 1.0 when float() rejects it
Confianza(ingrediente_data) ==
  LET confianza == DictGetOr(ingrediente_data, "confidence",
                             DictGetOr(ingrediente_data, "confianza", Num(100)))
  IN Clamp01(IF PyFloat(confianza).ok THEN PyFloat(confianza).val ELSE Num(100))

BBoxKeys == <<"x", "y", "width", "height">>
BBoxDefaults == ("x" :> Num(50)) @@ ("y" :> Num(50)) @@ ("width" :> Num(10)) @@ ("height" :> Num(10))

\* lines 235-250: the bounding box, None unless it is a dict of four floats
BoundingBox(ingrediente_data) ==
  LET bounding_box == DictGet(ingrediente_data, "bounding_box")
      raw == [k \in DOMAIN BBoxDefaults |-> PyFloat(DictGetOr(bounding_box, k, BBoxDefaults[k]))]
  IN IF bounding_box.t # "dict" THEN None
     ELSE IF \E k \in DOMAIN raw : ~raw[k].ok THEN None
     ELSE [t |-> "bbox", v |-> [k \in DOMAIN raw |-> Clamp01(raw[k].val)]]

\* lines 292-313: the Inventario row of the user for the ingredient is
\* updated or added
InventarioCon(inventario_db, nombre_norm, cantidad, confianza, bounding_box) ==
  IF \E row \in inventario_db : row.ingrediente = nombre_norm
    THEN {IF row.ingrediente = nombre_norm
            THEN [row EXCEPT !.cantidad = cantidad, !.confianza = confianza,
                             !.bounding_box = IF bounding_box # None THEN bounding_box ELSE @]
            ELSE row : row \in inventario_db}
    ELSE inventario_db \cup {[ingrediente |-> nombre_norm, cantidad |-> cantidad,
                           confianza |-> confianza, bounding_box |-> bounding_box]}

FilaDe(inventario_db, nombre_norm) == CHOOSE row \in inventario_db : row.ingrediente = nombre_norm

Procesado(accion, nombre_norm, confianza, ingrediente_db, inventario_db) ==
  [result |-> [accion |-> accion, ingrediente |-> nombre_norm, cantidad |-> FilaDe(inventario_db, nombre_norm).cantidad,
               confianza |-> confianza,
               bounding_box |-> FilaDe(inventario_db, nombre_norm).bounding_box],
   ingrediente |-> ingrediente_db, inventario |-> inventario_db]

NoProcesado(accion, error, ingrediente_db, inventario_db) ==
  [result |-> [accion |-> accion, error |-> error],
   ingrediente |-> ingrediente_db, inventario |-> inventario_db]

\* the outcomes of the flush of a new Ingrediente row (lines 259-286)
Flushes == {"ok", "integrity_found", "integrity_retry_ok", "integrity_retry_fails"}

_procesar_ingrediente(ingrediente_data, ingrediente_db, inventario_db, flush) ==
  LET nombre == PyOr(DictGet(ingrediente_data, "name"), DictGetOr(ingrediente_data, "id", JStr("")))
      nombre_norm == NormStr(nombre.v)
      cantidad == PyFloat(PyOr(DictGet(ingrediente_data, "quantity"),
                               DictGetOr(ingrediente_data, "cantidad", JInt(0))))
  IN IF nombre_norm = "" THEN NoProcesado("omitido", "Nombre vacio", ingrediente_db, inventario_db)
     ELSE IF ~cantidad.ok THEN NoProcesado("omitido", "Cantidad invalida", ingrediente_db, inventario_db)
     ELSE IF nombre_norm \notin ingrediente_db /\ flush = "integrity_retry_fails"
       THEN NoProcesado("error", "flush", ingrediente_db, inventario_db)
     ELSE Procesado(IF \E row \in inventario_db : row.ingrediente = nombre_norm
                      THEN "actualizado" ELSE "agregado",
                    nombre_norm, Confianza(ingrediente_data), ingrediente_db \cup {nombre_norm},
                    InventarioCon(inventario_db, nombre_norm, cantidad.val, Confianza(ingrediente_data),
                                  BoundingBox(ingrediente_data)))

(***************************************************************************)
(* cv/ingredients_parser.py: parse_gemini_response_with_coords             *)
(***************************************************************************)
\* the keys of INGREDIENTS_DATABASE the names below can hit, longest first
IngredientsDatabase == <<"salsa de tomate", "tomate", "pollo">>

\* find_ingredient: the first key, longest first, contained in the text
RECURSIVE FindIngredient(_, _)
FindIngredient(normalized_text, i) ==
  IF i > Len(IngredientsDatabase) THEN ""
  ELSE IF StrIn(IngredientsDatabase[i], normalized_text) THEN IngredientsDatabase[i]
  ELSE FindIngredient(normalized_text, i + 1)

RECURSIVE FenceEnd(_, _, _)
FenceEnd(text, i, closers) ==
  IF i > Len(text) \/ text[i] \in closers THEN i ELSE FenceEnd(text, i + 1, closers)

\* lines 42-47: what is between the fences, when there are fences
CleanMarkdown(response) ==
  LET j == FenceEnd(response, 1, {"J"})
      k == FenceEnd(response, 1, {"K"})
  IN IF j <= Len(response) THEN SubSeq(response, j + 1, FenceEnd(response, j + 1, {"J", "K"}) - 1)
     ELSE IF k <= Len(response) THEN SubSeq(response, k + 1, FenceEnd(response, k + 1, {"K"}) - 1)
     ELSE response

\* what one item raises: .get or .strip on the wrong type, float() of the
\* quantity, min() of a coordinate that is not a number
ItemRaises(item) ==
  \/ item.t # "dict"
  \/ DictGetOr(item, "name", JStr("")).t # "str"
  \/ /\ FindIngredient(NormStr(DictGetOr(item, "name", JStr("")).v), 1) # ""
     /\ \/ DictGetOr(item, "bounding_box", JDict(<<>>)).t # "dict"
        \/ ~PyFloat(DictGetOr(item, "quantity", Num(100))).ok
        \/ \E c \in DOMAIN BBoxDefaults :
             ~IsNumber(DictGetOr(DictGetOr(item, "bounding_box", JDict(<<>>)), c, BBoxDefaults[c]))

Detected(item) ==
  [id |-> FindIngredient(NormStr(DictGetOr(item, "name", JStr("")).v), 1),
   quantity |-> PyFloat(DictGetOr(item, "quantity", Num(100))).val,
   bounding_box |->
     [c \in DOMAIN BBoxDefaults |->
        Clamp01(DictGetOr(DictGetOr(item, "bounding_box", JDict(<<>>)), c, BBoxDefaults[c]))]]

\* the loop of lines 57-86; an item whose id was seen is skipped before
\* its fields are read
RECURSIVE DetectedLoop(_, _, _, _)
DetectedLoop(items, i, seen, detected) ==
  IF i > Len(items) THEN [raised |-> FALSE, detected |-> detected]
  ELSE IF items[i].t # "dict" \/ DictGetOr(items[i], "name", JStr("")).t # "str"
    THEN [raised |-> TRUE, detected |-> <<>>]
  ELSE IF FindIngredient(NormStr(DictGetOr(items[i], "name", JStr("")).v), 1) \in seen \cup {""}
    THEN DetectedLoop(items, i + 1, seen, detected)
  ELSE IF ItemRaises(items[i]) THEN [raised |-> TRUE, detected |-> <<>>]
  ELSE DetectedLoop(items, i + 1, seen \cup {Detected(items[i]).id}, Append(detected, Detected(items[i])))

DetectedDeData(data) ==
  IF ~data.ok \/ data.val.t # "dict" THEN <<>>
  ELSE IF ~DictHas(data.val, "ingredients") THEN <<>>
  ELSE IF DictGet(data.val, "ingredients").t # "list" THEN <<>>
  ELSE DetectedLoop(DictGet(data.val, "ingredients").v, 1, {}, <<>>).detected

parse_gemini_response_with_coords(json_response) ==
  DetectedDeData(JsonLoads(CleanMarkdown(json_response)))

(***************************************************************************)
(* Inventory processing over the tables                                    *)
(***************************************************************************)
\* the values a confidence or a coordinate may arrive with
CoordValues ==
  {Num(25), Num(-50), Num(150), NaN, PosInf, NegInf, JStr("abc"), None, JInt(2), JBool(TRUE)}

Member(k, v) == <<[k |-> k, v |-> v]>>

NombresDados == {Member("name", JStr("Tomate")), Member("id", JStr("Tomate")), Member("name", JStr(""))}
CantidadesDadas == {Member("quantity", JInt(2)), Member("quantity", JStr("abc"))}
ConfianzasDadas ==
  {<<>>, Member("confianza", Num(150))} \cup {Member("confidence", v) : v \in CoordValues}
BBoxDados ==
  {<<>>, Member("bounding_box", JStr("abc")),
   Member("bounding_box", JDict(Member("width", Num(150)) \o Member("height", Num(-50))))}
    \cup {Member("bounding_box", JDict(Member("x", v))) : v \in CoordValues}

DatosIngrediente ==
  {JDict(n \o q \o c \o b) :
     n \in NombresDados, q \in CantidadesDadas, c \in ConfianzasDadas, b \in BBoxDados}

\* the tokens of the same values in a JSON text
CoordTokens ==
  {"0.25", "-0.5", "1.5", "NaN", "Infinity", "-Infinity", "s_abc", "null", "2", "true"}
NombresDetectados == {"s_Tomate", "s_Salsa de Tomate", "s_abc"}
BBoxDetectados ==
  {<<>>, <<"k_bounding_box", "null">>,
   <<"k_bounding_box", "{", "k_width", "1.5", "k_height", "-0.5", "}">>}
    \cup {<<"k_bounding_box", "{", "k_x", c, "}">> : c \in CoordTokens}

ItemsDetectados == {<<"{", "k_name", n>> \o b \o <<"}">> : n \in NombresDetectados, b \in BBoxDetectados}

MaxDetectados == 2
ListasDetectadas == UNION {[1..k -> ItemsDetectados] : k \in 0..MaxDetectados}

RECURSIVE Concat(_, _, _)
Concat(seqs, i, acc) == IF i > Len(seqs) THEN acc ELSE Concat(seqs, i + 1, acc \o seqs[i])

\* the answer of the vision model: the JSON object, bare or fenced
RespuestaDe(items, fenced) ==
  LET json == <<"{", "k_ingredients", "[">> \o Concat(items, 1, <<>>) \o <<"]", "}">>
  IN IF fenced THEN <<"x", "\n", "J", "\n">> \o json \o <<"\n", "K">> ELSE json

InitInventario ==
  /\ recetas = <<>>
  /\ sugs = <<>>
  /\ pasos = <<>>
  /\ plan = {}
  /\ inv = Idle
  /\ ingrediente \in {{}, {"tomate"}}
  /\ inventario = {}
  /\ tokens = {}
  /\ emitidos = {}
  /\ now = 0
  /\ peticiones = <<>>

\* the effect of one call and of the commit that follows it in
\* actualizar_inventario: a failed commit rolls everything back
IngredienteProcesado(ingrediente_data, commitOk, r) ==
  /\ ingrediente' = IF commitOk THEN r.ingrediente ELSE ingrediente
  /\ inventario' = IF commitOk THEN r.inventario ELSE inventario
  /\ inv' = [op |-> "_procesar_ingrediente", ingrediente_data |-> ingrediente_data,
             result |-> IF commitOk THEN r.result ELSE [accion |-> "error", error |-> "commit"]]

ProcesarIngrediente ==
  /\ inv = Idle
  /\ \E ingrediente_data \in DatosIngrediente, flush \in Flushes, commitOk \in BOOLEAN :
       IngredienteProcesado(ingrediente_data, commitOk,
                            _procesar_ingrediente(ingrediente_data, ingrediente, inventario, flush))
  /\ UNCHANGED <<recetas, sugs, pasos, plan, tokens, emitidos, now, peticiones>>

ParseGeminiResponseWithCoords ==
  /\ inv = Idle
  /\ \E items \in ListasDetectadas, fenced \in BOOLEAN :
       inv' = [op |-> "parse_gemini_response_with_coords", items |-> items, fenced |-> fenced,
               result |-> parse_gemini_response_with_coords(RespuestaDe(items, fenced))]
  /\ UNCHANGED <<recetas, sugs, pasos, plan, resto>>

NextInventario == ProcesarIngrediente \/ ParseGeminiResponseWithCoords \/ TomarResultado

SpecInventario == InitInventario /\ [][NextInventario]_vars

IsProcesar == inv.op = "_procesar_ingrediente"
IsParseCoords == inv.op = "parse_gemini_response_with_coords"

\* a float between 0.0 and 1.0
EnRango(x) == x.t = "float" /\ x.v \in 0..100

BBoxEnRango(b) == b = None \/ \A c \in DOMAIN b.v : EnRango(b.v[c])

\* C23: every confidence value and every bounding-box coordinate stored or
\* returned by _procesar_ingrediente and parse_gemini_response_with_coords
\* lies in [0,1], for every numeric input.
C23_Clamped ==
  /\ \A row \in inventario : EnRango(row.confianza) /\ BBoxEnRango(row.bounding_box)
  /\ (IsProcesar /\ inv.result.accion \in {"agregado", "actualizado"}) =>
       EnRango(inv.result.confianza) /\ BBoxEnRango(inv.result.bounding_box)
  /\ IsParseCoords =>
       \A i \in 1..Len(inv.result) :
         \A c \in DOMAIN inv.result[i].bounding_box : EnRango(inv.result[i].bounding_box[c])

\* a row stored with a confidence given as 1.5 and a returned box whose x
\* was given as -0.5
C23_Witness ==
  /\ IsProcesar
  /\ DictGet(inv.ingrediente_data, "confidence") = Num(150)
  /\ inv.result.accion = "actualizado"
  /\ inv.result.confianza = Num(100)
  /\ \E row \in inventario : row.bounding_box # None /\ row.bounding_box.v["x"] = Num(0)

(***************************************************************************)
(* Authentication: generar_token, token_required, login, logout, refresh   *)
(***************************************************************************)
\* the clock ticks in units in which an access token lasts one tick and a
\* refresh token two: JWT_ACCESS_TOKEN_EXPIRES < JWT_REFRESH_TOKEN_EXPIRES
AccessTicks == 1
RefreshTicks == 2

\* the rows of Usuario, all of them active
Usuarios == {1, 2}

\* a JWT signed by the server is its payload; iat is exp minus the lifetime
generar_token(usuario_id, tipo, t) ==
  [user_id |-> usuario_id, type |-> tipo,
   exp |-> t + (IF tipo = "access" THEN AccessTicks ELSE RefreshTicks)]

\* a string that is no JWT of the server, and no Authorization header
Garbage == [user_id |-> 0, type |-> "garbage", exp |-> 0]
NoToken == [user_id |-> 0, type |-> "none", exp |-> 0]

\* jwt.decode: InvalidTokenError unless the server signed the token,
\* ExpiredSignatureError once exp has passed
DecodeFails(token, t) == token.type \in {"garbage", "none"} \/ token.exp <= t

\* the decorator: 401, or 200 when the wrapped endpoint is called
token_required(token, t) ==
  IF token = NoToken THEN 401
  ELSE IF DecodeFails(token, t) THEN 401
  ELSE IF token.user_id \notin Usuarios THEN 401
  ELSE 200

MaxNow == 2
MaxLogins == 2

InitAuth ==
  /\ recetas = <<>>
  /\ sugs = <<>>
  /\ pasos = <<>>
  /\ plan = {}
  /\ inv = Idle
  /\ ingrediente = {}
  /\ inventario = {}
  /\ tokens = {}
  /\ emitidos = {}
  /\ now = 0
  /\ peticiones = <<>>

\* emitidos holds [jwt, cerrado]: cerrado once the user of the token has
\* logged out and the same token has not been issued again since
Emitir(em, jwts) == {e \in em : e.jwt \notin jwts} \cup {[jwt |-> j, cerrado |-> FALSE] : j \in jwts}
Cerrar(em, usuario_id) == {[e EXCEPT !.cerrado = @ \/ e.jwt.user_id = usuario_id] : e \in em}

\* what a client can present: a token it was handed, a forged string, nothing
Presentables == {e.jwt : e \in emitidos} \cup {Garbage, NoToken}
EsCerrado(token) == \E e \in emitidos : e.jwt = token /\ e.cerrado

Tick ==
  /\ inv = Idle
  /\ now < MaxNow
  /\ now' = now + 1
  /\ UNCHANGED <<recetas, sugs, pasos, plan, inv, ingrediente, inventario, tokens, emitidos, peticiones>>

LoginHecho(usuario_id, ok, access_token, refresh_token) ==
  /\ tokens' = IF ok THEN tokens \cup {[usuario_id |-> usuario_id, jwt |-> refresh_token,
                                         fecha_expiracion |-> refresh_token.exp]}
                ELSE tokens
  /\ emitidos' = IF ok THEN Emitir(emitidos, {access_token, refresh_token}) ELSE emitidos

Login ==
  /\ inv = Idle
  /\ Cardinality(emitidos) < 2 * MaxLogins
  /\ \E usuario_id \in Usuarios, credencialesOk \in BOOLEAN, commitOk \in BOOLEAN :
       /\ LoginHecho(usuario_id, credencialesOk /\ commitOk,
                     generar_token(usuario_id, "access", now), generar_token(usuario_id, "refresh", now))
       /\ inv' = [op |-> "login", token |-> NoToken, cerrado |-> FALSE,
                  status |-> IF ~credencialesOk THEN 401 ELSE IF commitOk THEN 200 ELSE 500]
  /\ UNCHANGED <<recetas, sugs, pasos, plan, ingrediente, inventario, now, peticiones>>

\* an endpoint guarded by token_required
Protegido ==
  /\ inv = Idle
  /\ \E token \in Presentables :
       inv' = [op |-> "token_required", token |-> token, cerrado |-> EsCerrado(token),
               status |-> token_required(token, now)]
  /\ UNCHANGED <<recetas, sugs, pasos, plan, resto>>

LogoutHecho(token, status) ==
  /\ tokens' = IF status = 200 THEN {row \in tokens : row.usuario_id # token.user_id} ELSE tokens
  /\ emitidos' = IF status = 200 THEN Cerrar(emitidos, token.user_id) ELSE emitidos
  /\ inv' = [op |-> "logout", token |-> token, cerrado |-> EsCerrado(token), status |-> status]

Logout ==
  /\ inv = Idle
  /\ \E token \in Presentables, commitOk \in BOOLEAN :
       LogoutHecho(token, IF token_required(token, now) = 401 THEN 401
                          ELSE IF commitOk THEN 200 ELSE 500)
  /\ UNCHANGED <<recetas, sugs, pasos, plan, ingrediente, inventario, now, peticiones>>

\* [status, tokens, emitidos] of POST /v1/auth/refresh
refresh(refresh_token, tabla, em, t) ==
  LET token_db == {row \in tabla : row.usuario_id = refresh_token.user_id /\ row.jwt = refresh_token} IN
  IF refresh_token = NoToken THEN [status |-> 400, tokens |-> tabla, emitidos |-> em]
  ELSE IF DecodeFails(refresh_token, t) THEN [status |-> 401, tokens |-> tabla, emitidos |-> em]
  ELSE IF refresh_token.type # "refresh" THEN [status |-> 401, tokens |-> tabla, emitidos |-> em]
  ELSE IF token_db = {} THEN [status |-> 401, tokens |-> tabla, emitidos |-> em]
  ELSE IF \E row \in token_db : t > row.fecha_expiracion
    THEN [status |-> 401, tokens |-> tabla \ token_db, emitidos |-> em]
  ELSE IF refresh_token.user_id \notin Usuarios THEN [status |-> 401, tokens |-> tabla, emitidos |-> em]
  ELSE [status |-> 200, tokens |-> tabla,
        emitidos |-> Emitir(em, {generar_token(refresh_token.user_id, "access", t)})]

RefreshHecho(token, r) ==
  /\ tokens' = r.tokens
  /\ emitidos' = r.emitidos
  /\ inv' = [op |-> "refresh", token |-> token, cerrado |-> EsCerrado(token), status |-> r.status]

Refresh ==
  /\ inv = Idle
  /\ \E token \in Presentables : RefreshHecho(token, refresh(token, tokens, emitidos, now))
  /\ UNCHANGED <<recetas, sugs, pasos, plan, ingrediente, inventario, now, peticiones>>

NextAuth == Tick \/ Login \/ Protegido \/ Logout \/ Refresh \/ TomarResultado

SpecAuth == InitAuth /\ [][NextAuth]_vars

\* C24: after a successful logout no token issued to that user before the
\* logout is accepted any more: refresh rejects an earlier refresh token
\* with 401 and an endpoint guarded by token_required rejects an earlier
\* access token.
C24_LogoutInvalidates ==
  /\ (inv.op = "refresh" /\ inv.cerrado) => inv.status = 401
  /\ (inv.op \in {"token_required", "logout"} /\ inv.cerrado /\ inv.token.type = "access") =>
       inv.status = 401

\* C30: an endpoint guarded by token_required accepts only tokens issued
\* with type 'access', just as refresh accepts only tokens of type
\* 'refresh'.
C30_TypesNotInterchangeable ==
  /\ (inv.op \in {"token_required", "logout"} /\ inv.status # 401) => inv.token.type = "access"
  /\ (inv.op = "refresh" /\ inv.status = 200) => inv.token.type = "refresh"

(***************************************************************************)
(* The stored steps of a recipe                                            *)
(***************************************************************************)
InstruccionesDe(filas) == [i \in 1..Len(filas) |-> filas[i].instruccion]

\* the stored rows are the generated batch: one row for every generated
\* step, with its instruction, and with its number when it has one
EsElLote(filas, generados) ==
  /\ Len(filas) = Len(generados)
  /\ \A i \in 1..Len(generados) :
       /\ Veces(InstruccionesDe(filas), generados[i].instruccion)
            = Veces(InstruccionesDe(generados), generados[i].instruccion)
       /\ Truthy(generados[i].n) =>
            \E j \in 1..Len(filas) :
              filas[j].n = generados[i].n /\ filas[j].instruccion = generados[i].instruccion

\* C25: after any call of generar_y_guardar_pasos the steps stored for the
\* recipe are either exactly the newly generated batch, which is also what
\* the call returns, or exactly the steps stored before the call (nothing
\* was generated, or the save failed and was rolled back): never a mixture
\* and never an empty set left by a failed save.
C25_StepsReplacedAsUnit ==
  IsGuardarPasos =>
    \/ inv.result # <<>> /\ pasos = inv.result /\ EsElLote(pasos, inv.generados)
    \/ inv.result = <<>> /\ pasos = inv.antes

\* a save that failed over steps stored by an earlier call
C25_Witness ==
  /\ IsGuardarPasos
  /\ inv.antes # <<>>
  /\ inv.generados # <<>>
  /\ inv.result = <<>>
  /\ pasos = inv.antes

\* some generated steps carry a number and others do not
LoteMixto(generados) ==
  /\ \E i \in 1..Len(generados) : Truthy(generados[i].n)
  /\ \E i \in 1..Len(generados) : ~Truthy(generados[i].n)

\* C28: for every generated batch in which some steps carry a number and
\* others do not, generar_y_guardar_pasos gives the un-numbered steps
\* positive numbers such that all step numbers of the recipe are pairwise
\* distinct, so that every generated step is saved.
C28_MixedBatchSaved ==
  (IsGuardarPasos /\ inv.commitOk /\ LoteMixto(inv.generados)) =>
    /\ EsElLote(pasos, inv.generados)
    /\ \A i \in 1..Len(pasos) : pasos[i].n.t = "int" /\ pasos[i].n.v > 0
    /\ \A i, j \in 1..Len(pasos) : pasos[i].n = pasos[j].n => i = j

(***************************************************************************)
(* The stored plan of a week                                               *)
(***************************************************************************)
\* the rows of the week that starts at fecha_inicio
FilasDeSemana(rows, fecha_inicio) == rows \ LimpiarSemana(rows, fecha_inicio)

\* C26: if saving a newly generated weekly plan fails (the outcome that
\* carries the warning), the Planificador rows stored for that user and
\* week are the same as before the call.
C26_FailedSaveKeepsPlan ==
  [][(inv'.op = "generar_sugerencias_planificacion" /\ inv'.out.warning) =>
       FilasDeSemana(plan', inv'.fecha_inicio) = FilasDeSemana(plan, inv'.fecha_inicio)]_vars

(***************************************************************************)
(* Slot values that name no recipe                                         *)
(***************************************************************************)
\* a string that is empty once stripped
EnBlanco(x) == x.t = "str" /\ NormStr(x.v) = ""

\* an empty or whitespace-only string, or a mapping that carries no id key
\* and whose nombre/name is such a string
SinNombre(raw_value) ==
  \/ EnBlanco(raw_value)
  \/ /\ raw_value.t = "dict"
     /\ \A key \in {"id", "receta_id", "recipe_id"} : ~DictHas(raw_value, key)
     /\ DictHas(raw_value, "nombre") \/ DictHas(raw_value, "name")
     /\ EnBlanco(PyOr(DictGet(raw_value, "nombre"), DictGet(raw_value, "name")))

\* C29: for every catalog, _resolver_receta_id returns null for an empty or
\* whitespace-only string and for a mapping whose nombre/name is empty or
\* whitespace-only.
C29_NamelessIsNull ==
  (inv.op = "_resolver_receta_id" /\ SinNombre(inv.raw_value)) => inv.result = None

(***************************************************************************)
(* generar_recomendaciones under concurrent requests                       *)
(***************************************************************************)
\* Every request runs in a session of its own: what it flushes is seen by
\* the others once it commits.  A request is at one recipe of its loop
\* (lines 85-110): "query" before _guardar_receta_minima, "commit" once the
\* row was found or flushed, "salida" when receta_salida is built.  The
\* Receta row is given its place in recetas when the commit makes it
\* visible.
MaxPeticiones == 2
MaxFilas == 3
Peticiones == 1..MaxPeticiones
NombresGenerados == {"Sopa", "Tacos"}

Libre == [pc |-> "libre", nombre |-> "", nueva |-> FALSE, id |-> 0]
EnCurso == {p \in Peticiones : peticiones[p].pc \notin {"libre", "salida"}}

InitConcurrente ==
  /\ recetas \in {<<>>, <<"Sopa">>}
  /\ sugs = <<>>
  /\ pasos = <<>>
  /\ plan = {}
  /\ inv = Idle
  /\ ingrediente = {}
  /\ inventario = {}
  /\ tokens = {}
  /\ emitidos = {}
  /\ now = 0
  /\ peticiones = [p \in Peticiones |-> Libre]

\* the model output of the request holds a recipe of this name
Empezar(p) ==
  /\ peticiones[p].pc \in {"libre", "salida"}
  /\ Len(sugs) + Cardinality(EnCurso) < MaxFilas
  /\ \E nombre \in NombresGenerados :
       peticiones' = [peticiones EXCEPT ![p] = [pc |-> "query", nombre |-> nombre, nueva |-> FALSE, id |-> 0]]
  /\ UNCHANGED <<recetas, sugs, pasos, plan, inv, ingrediente, inventario, tokens, emitidos, now>>

\* _guardar_receta_minima: the query by nombre over the committed rows,
\* and the add and flush of a new row when there is none
GuardarRecetaMinima(p) ==
  /\ peticiones[p].pc = "query"
  /\ peticiones' = [peticiones EXCEPT ![p].pc = "commit",
                                       ![p].id = RecetaByNombre(recetas, peticiones[p].nombre),
                                       ![p].nueva = RecetaByNombre(recetas, peticiones[p].nombre) = 0]
  /\ UNCHANGED <<recetas, sugs, pasos, plan, inv, ingrediente, inventario, tokens, emitidos, now>>

\* lines 95-101: the SugerenciaReceta row is added and the session is
\* committed; a failed commit rolls the flushed Receta row back as well
CommitHecho(p, commitOk, id) ==
  /\ recetas' = IF commitOk /\ peticiones[p].nueva THEN Append(recetas, peticiones[p].nombre) ELSE recetas
  /\ sugs' = IF commitOk THEN Append(sugs, id) ELSE sugs
  /\ peticiones' = [peticiones EXCEPT ![p].pc = "salida", ![p].id = id]

CommitSugerencia(p) ==
  /\ peticiones[p].pc = "commit"
  /\ \E commitOk \in BOOLEAN :
       CommitHecho(p, commitOk, IF peticiones[p].nueva THEN Len(recetas) + 1 ELSE peticiones[p].id)
  /\ UNCHANGED <<pasos, plan, inv, ingrediente, inventario, tokens, emitidos, now>>

NextConcurrente ==
  \E p \in Peticiones : Empezar(p) \/ GuardarRecetaMinima(p) \/ CommitSugerencia(p)

SpecConcurrente == InitConcurrente /\ [][NextConcurrente]_vars

\* C27: after any interleaving of generar_recomendaciones invocations the
\* catalog holds at most one Receta row per name, and generated recipes
\* with the same name are returned with the same id.
C27_OneRowPerName ==
  /\ \A i, j \in 1..Len(recetas) : recetas[i] = recetas[j] => i = j
  /\ \A p, q \in DOMAIN peticiones :
       (peticiones[p].pc = "salida" /\ peticiones[q].pc = "salida"
          /\ peticiones[p].nombre = peticiones[q].nombre) => peticiones[p].id = peticiones[q].id

====
